---- MODULE Spec2Model ----
(***************************************************************************)
(* Model of the synthetic process-data generator                           *)
(* (src/data/tabular data/data_generator.py).                              *)
(*                                                                         *)
(* The script is a straight-line pipeline; pc holds the source line of the *)
(* next statement to execute.  Real values are fixed-point integers in     *)
(* units of 1/10000; the pseudo-random generator is a seeded deterministic *)
(* stream, so that a run is a function of the seed, the row count and the  *)
(* wall clock.                                                             *)
(***************************************************************************)
EXTENDS Integers, Sequences, FiniteSets, TLC

\* ---------------------------------------------------------------- bounds
MinPoints == 38
MaxPoints == 41
MaxSeed == 4
MaxJitter == 2
MaxRuns == 2

\* ------------------------------------------------- fixed-point arithmetic
\* One unit of the fixed-point representation is 1/Scale.
Scale == 10000
\* Clock ticks (milliseconds) per minute.
TicksPerMinute == 60000

\* --- 1. CONFIGURATION
INTERVAL_MINUTES == 15
SEED == 42

\* --- 2. normal operating ranges, in fixed-point units
limestone_feed_rate_mean == 780000
clay_feed_rate_mean == 160000
iron_ore_feed_rate_mean == 35000
raw_meal_feed_rate_mean == 1750000
raw_meal_feed_rate_std == 50000
fuel_feed_rate_mean == 95000
fuel_feed_rate_std == 3000
fuel_alt_substitution_rate_mean == 150000
fuel_alt_substitution_rate_std == 20000
kiln_hood_pressure_mean == -60000
kiln_hood_pressure_std == 5000
kiln_burner_air_flow_mean == 250000000
kiln_burner_air_flow_std == 5000000
clinker_feed_rate_mill_mean == 1100000
clinker_feed_rate_mill_std == 30000
gypsum_feed_rate_mean == 55000
gypsum_feed_rate_std == 2000
mill_recirculation_ratio_mean == 550000
mill_recirculation_ratio_std == 50000
kiln_main_drive_current_mean == 2000000
kiln_main_drive_current_std == 50000
num_scenarios == 3

\* ------------------------------------------------------------ column names
cTimestamp == "timestamp"
cLimestone == "limestone_feed_rate_%"
cClay == "clay_feed_rate_%"
cIronOre == "iron_ore_feed_rate_%"
cBauxite == "bauxite_feed_rate_%"
cRawMeal == "raw_meal_feed_rate_tph"
cFuel == "fuel_feed_rate_tph"
cFuelAlt == "fuel_alt_substitution_rate_%"
cHood == "kiln_hood_pressure_mmH2O"
cAirFlow == "kiln_burner_air_flow_m3/hr"
cClinker == "clinker_feed_rate_tph"
cGypsum == "gypsum_feed_rate_tph"
cRecirc == "mill_recirculation_ratio_%"
cCurrent == "kiln_main_drive_current_Amp"
cLsf == "raw_meal_lsf_ratio"
cFreeLime == "clinker_free_lime_%"
cThermal == "kiln_specific_thermal_energy_Kcal/kg_clinker"
cNox == "kiln_exit_nox_emissions_mg/Nm3"
cPower == "mill_motor_power_draw_kW"
cFineness == "cement_fineness_blaine_cm2/g"
cEnergy == "mill_specific_electrical_energy_kWh/ton_cement"

\* variant: the drive-current column left out of the order
column_order_short ==
  << cTimestamp, cLimestone, cClay, cIronOre, cBauxite,
     cRawMeal, cFuel, cFuelAlt,
     cHood, cAirFlow,
     cClinker, cGypsum, cRecirc, cLsf, cFreeLime,
     cThermal, cNox, cPower,
     cEnergy, cFineness >>

column_order ==
  << cTimestamp, cLimestone, cClay, cIronOre, cBauxite,
     cRawMeal, cFuel, cFuelAlt,
     cHood, cAirFlow, cCurrent,
     cClinker, cGypsum, cRecirc, cLsf, cFreeLime,
     cThermal, cNox, cPower,
     cEnergy, cFineness >>

\* variant: the two energy names written in each other's place
bq_friendly_columns_swapped ==
  << "timestamp", "limestone_feed_rate_pct", "clay_feed_rate_pct",
     "iron_ore_feed_rate_pct", "bauxite_feed_rate_pct",
     "raw_meal_feed_rate_tph", "fuel_feed_rate_tph",
     "fuel_alt_substitution_rate_pct",
     "kiln_hood_pressure_mmH2O", "kiln_burner_air_flow_m3_hr",
     "kiln_main_drive_current_amp",
     "clinker_feed_rate_tph", "gypsum_feed_rate_tph",
     "mill_recirculation_ratio_pct", "raw_meal_lsf_ratio",
     "clinker_free_lime_pct",
     "mill_specific_electrical_energy_kwh_per_ton_cement",
     "kiln_exit_nox_emissions_mg_per_nm3",
     "mill_motor_power_draw_kW",
     "kiln_specific_thermal_energy_kcal_per_kg_clinker",
     "cement_fineness_blaine_cm2_per_g" >>

bq_friendly_columns ==
  << "timestamp", "limestone_feed_rate_pct", "clay_feed_rate_pct",
     "iron_ore_feed_rate_pct", "bauxite_feed_rate_pct",
     "raw_meal_feed_rate_tph", "fuel_feed_rate_tph",
     "fuel_alt_substitution_rate_pct",
     "kiln_hood_pressure_mmH2O", "kiln_burner_air_flow_m3_hr",
     "kiln_main_drive_current_amp",
     "clinker_feed_rate_tph", "gypsum_feed_rate_tph",
     "mill_recirculation_ratio_pct", "raw_meal_lsf_ratio",
     "clinker_free_lime_pct",
     "kiln_specific_thermal_energy_kcal_per_kg_clinker",
     "kiln_exit_nox_emissions_mg_per_nm3",
     "mill_motor_power_draw_kW",
     "mill_specific_electrical_energy_kwh_per_ton_cement",
     "cement_fineness_blaine_cm2_per_g" >>

\* the characters of a column name, first to last (the string literals of
\* column_order and bq_friendly_columns spelled out)
CharsOf(name) ==
  CASE
       name = "timestamp" ->
         << "t", "i", "m", "e", "s", "t", "a", "m", "p" >>
    [] name = "limestone_feed_rate_%" ->
         << "l", "i", "m", "e", "s", "t", "o", "n", "e", "_", "f", "e", "e", "d", "_", "r", "a", "t", "e", "_", "%" >>
    [] name = "clay_feed_rate_%" ->
         << "c", "l", "a", "y", "_", "f", "e", "e", "d", "_", "r", "a", "t", "e", "_", "%" >>
    [] name = "iron_ore_feed_rate_%" ->
         << "i", "r", "o", "n", "_", "o", "r", "e", "_", "f", "e", "e", "d", "_", "r", "a", "t", "e", "_", "%" >>
    [] name = "bauxite_feed_rate_%" ->
         << "b", "a", "u", "x", "i", "t", "e", "_", "f", "e", "e", "d", "_", "r", "a", "t", "e", "_", "%" >>
    [] name = "raw_meal_feed_rate_tph" ->
         << "r", "a", "w", "_", "m", "e", "a", "l", "_", "f", "e", "e", "d", "_", "r", "a", "t", "e", "_", "t", "p", "h" >>
    [] name = "fuel_feed_rate_tph" ->
         << "f", "u", "e", "l", "_", "f", "e", "e", "d", "_", "r", "a", "t", "e", "_", "t", "p", "h" >>
    [] name = "fuel_alt_substitution_rate_%" ->
         << "f", "u", "e", "l", "_", "a", "l", "t", "_", "s", "u", "b", "s", "t", "i", "t", "u", "t", "i", "o", "n", "_", "r", "a", "t", "e", "_", "%" >>
    [] name = "kiln_hood_pressure_mmH2O" ->
         << "k", "i", "l", "n", "_", "h", "o", "o", "d", "_", "p", "r", "e", "s", "s", "u", "r", "e", "_", "m", "m", "H", "2", "O" >>
    [] name = "kiln_burner_air_flow_m3/hr" ->
         << "k", "i", "l", "n", "_", "b", "u", "r", "n", "e", "r", "_", "a", "i", "r", "_", "f", "l", "o", "w", "_", "m", "3", "/", "h", "r" >>
    [] name = "kiln_main_drive_current_Amp" ->
         << "k", "i", "l", "n", "_", "m", "a", "i", "n", "_", "d", "r", "i", "v", "e", "_", "c", "u", "r", "r", "e", "n", "t", "_", "A", "m", "p" >>
    [] name = "clinker_feed_rate_tph" ->
         << "c", "l", "i", "n", "k", "e", "r", "_", "f", "e", "e", "d", "_", "r", "a", "t", "e", "_", "t", "p", "h" >>
    [] name = "gypsum_feed_rate_tph" ->
         << "g", "y", "p", "s", "u", "m", "_", "f", "e", "e", "d", "_", "r", "a", "t", "e", "_", "t", "p", "h" >>
    [] name = "mill_recirculation_ratio_%" ->
         << "m", "i", "l", "l", "_", "r", "e", "c", "i", "r", "c", "u", "l", "a", "t", "i", "o", "n", "_", "r", "a", "t", "i", "o", "_", "%" >>
    [] name = "raw_meal_lsf_ratio" ->
         << "r", "a", "w", "_", "m", "e", "a", "l", "_", "l", "s", "f", "_", "r", "a", "t", "i", "o" >>
    [] name = "clinker_free_lime_%" ->
         << "c", "l", "i", "n", "k", "e", "r", "_", "f", "r", "e", "e", "_", "l", "i", "m", "e", "_", "%" >>
    [] name = "kiln_specific_thermal_energy_Kcal/kg_clinker" ->
         << "k", "i", "l", "n", "_", "s", "p", "e", "c", "i", "f", "i", "c", "_", "t", "h", "e", "r", "m", "a", "l", "_", "e", "n", "e", "r", "g", "y", "_", "K", "c", "a", "l", "/", "k", "g", "_", "c", "l", "i", "n", "k", "e", "r" >>
    [] name = "kiln_exit_nox_emissions_mg/Nm3" ->
         << "k", "i", "l", "n", "_", "e", "x", "i", "t", "_", "n", "o", "x", "_", "e", "m", "i", "s", "s", "i", "o", "n", "s", "_", "m", "g", "/", "N", "m", "3" >>
    [] name = "mill_motor_power_draw_kW" ->
         << "m", "i", "l", "l", "_", "m", "o", "t", "o", "r", "_", "p", "o", "w", "e", "r", "_", "d", "r", "a", "w", "_", "k", "W" >>
    [] name = "mill_specific_electrical_energy_kWh/ton_cement" ->
         << "m", "i", "l", "l", "_", "s", "p", "e", "c", "i", "f", "i", "c", "_", "e", "l", "e", "c", "t", "r", "i", "c", "a", "l", "_", "e", "n", "e", "r", "g", "y", "_", "k", "W", "h", "/", "t", "o", "n", "_", "c", "e", "m", "e", "n", "t" >>
    [] name = "cement_fineness_blaine_cm2/g" ->
         << "c", "e", "m", "e", "n", "t", "_", "f", "i", "n", "e", "n", "e", "s", "s", "_", "b", "l", "a", "i", "n", "e", "_", "c", "m", "2", "/", "g" >>
    [] name = "limestone_feed_rate_pct" ->
         << "l", "i", "m", "e", "s", "t", "o", "n", "e", "_", "f", "e", "e", "d", "_", "r", "a", "t", "e", "_", "p", "c", "t" >>
    [] name = "clay_feed_rate_pct" ->
         << "c", "l", "a", "y", "_", "f", "e", "e", "d", "_", "r", "a", "t", "e", "_", "p", "c", "t" >>
    [] name = "iron_ore_feed_rate_pct" ->
         << "i", "r", "o", "n", "_", "o", "r", "e", "_", "f", "e", "e", "d", "_", "r", "a", "t", "e", "_", "p", "c", "t" >>
    [] name = "bauxite_feed_rate_pct" ->
         << "b", "a", "u", "x", "i", "t", "e", "_", "f", "e", "e", "d", "_", "r", "a", "t", "e", "_", "p", "c", "t" >>
    [] name = "fuel_alt_substitution_rate_pct" ->
         << "f", "u", "e", "l", "_", "a", "l", "t", "_", "s", "u", "b", "s", "t", "i", "t", "u", "t", "i", "o", "n", "_", "r", "a", "t", "e", "_", "p", "c", "t" >>
    [] name = "kiln_burner_air_flow_m3_hr" ->
         << "k", "i", "l", "n", "_", "b", "u", "r", "n", "e", "r", "_", "a", "i", "r", "_", "f", "l", "o", "w", "_", "m", "3", "_", "h", "r" >>
    [] name = "kiln_main_drive_current_amp" ->
         << "k", "i", "l", "n", "_", "m", "a", "i", "n", "_", "d", "r", "i", "v", "e", "_", "c", "u", "r", "r", "e", "n", "t", "_", "a", "m", "p" >>
    [] name = "mill_recirculation_ratio_pct" ->
         << "m", "i", "l", "l", "_", "r", "e", "c", "i", "r", "c", "u", "l", "a", "t", "i", "o", "n", "_", "r", "a", "t", "i", "o", "_", "p", "c", "t" >>
    [] name = "clinker_free_lime_pct" ->
         << "c", "l", "i", "n", "k", "e", "r", "_", "f", "r", "e", "e", "_", "l", "i", "m", "e", "_", "p", "c", "t" >>
    [] name = "kiln_specific_thermal_energy_kcal_per_kg_clinker" ->
         << "k", "i", "l", "n", "_", "s", "p", "e", "c", "i", "f", "i", "c", "_", "t", "h", "e", "r", "m", "a", "l", "_", "e", "n", "e", "r", "g", "y", "_", "k", "c", "a", "l", "_", "p", "e", "r", "_", "k", "g", "_", "c", "l", "i", "n", "k", "e", "r" >>
    [] name = "kiln_exit_nox_emissions_mg_per_nm3" ->
         << "k", "i", "l", "n", "_", "e", "x", "i", "t", "_", "n", "o", "x", "_", "e", "m", "i", "s", "s", "i", "o", "n", "s", "_", "m", "g", "_", "p", "e", "r", "_", "n", "m", "3" >>
    [] name = "mill_specific_electrical_energy_kwh_per_ton_cement" ->
         << "m", "i", "l", "l", "_", "s", "p", "e", "c", "i", "f", "i", "c", "_", "e", "l", "e", "c", "t", "r", "i", "c", "a", "l", "_", "e", "n", "e", "r", "g", "y", "_", "k", "w", "h", "_", "p", "e", "r", "_", "t", "o", "n", "_", "c", "e", "m", "e", "n", "t" >>
    [] name = "cement_fineness_blaine_cm2_per_g" ->
         << "c", "e", "m", "e", "n", "t", "_", "f", "i", "n", "e", "n", "e", "s", "s", "_", "b", "l", "a", "i", "n", "e", "_", "c", "m", "2", "_", "p", "e", "r", "_", "g" >>
    [] OTHER -> << >>

\* ------------------------------------------------------- program counter
\* Source lines of the statements, in execution order.
Lines ==
  << 34, 35, 39, 40, 41, 42, 43, 44, 45, 46, 47, 48, 49, 50, 51,
     55, 56, 57, 58, 59, 60, 61, 64,
     68, 69, 70, 71, 74, 75, 76, 77, 80, 81, 82, 83,
     86, 97, 108, 111, 113 >>

FirstLine == 34
DoneLine == 113
RaisedLine == 0

\* variant: the three subset selections hoisted before the magnitude draws
NextLineHoisted(l) ==
  CASE l = 68 -> 74
    [] l = 74 -> 80
    [] l = 80 -> 69
    [] l = 71 -> 75
    [] l = 77 -> 81
    [] OTHER -> LET p == CHOOSE q \in 1..Len(Lines) : Lines[q] = l
                IN  Lines[p + 1]

NextLine(l) ==
  LET p == CHOOSE q \in 1..Len(Lines) : Lines[q] = l
  IN  Lines[p + 1]

\* -------------------------------------------------- pseudo-random stream
\* np.random is a deterministic function of the seed and of the sequence of
\* calls; it is modelled by a linear congruential stream.
LcgModulus == 65537
LcgMultiplier == 75
LcgIncrement == 74

Lcg(s) == (LcgMultiplier * s + LcgIncrement) % LcgModulus

RECURSIVE LcgIter(_, _)
LcgIter(s, n) == IF n = 0 THEN s ELSE LcgIter(Lcg(s), n - 1)

SeedState(sd) == sd % LcgModulus

\* One standard-normal variate, in hundredths of a standard deviation.
ZOf(s) == (s % 601) - 300
\* One uniform [0,1) variate, in hundredths.
UOf(s) == s % 100

NormalOf(mean, std, s) == mean + (std * ZOf(s)) \div 100
UniformOf(lo, hi, s) == lo + ((hi - lo) * UOf(s)) \div 100

\* np.random.normal(mean, std, n) from generator state s, as a sequence.
NormalDraw(mean, std, n, s) ==
  [j \in 1..n |-> NormalOf(mean, std, LcgIter(s, j))]

\* np.random.uniform(lo, hi, n) from generator state s, as a sequence.
UniformDraw(lo, hi, n, s) ==
  [j \in 1..n |-> UniformOf(lo, hi, LcgIter(s, j))]

RemoveAt(q, p) == [j \in 1..(Len(q) - 1) |-> IF j < p THEN q[j] ELSE q[j + 1]]

\* np.random.choice(index, k, replace=False): k draws from the shrinking pool.
RECURSIVE ChoiceFrom(_, _, _)
ChoiceFrom(pool, k, s) ==
  IF k = 0 THEN << >>
  ELSE LET s1 == Lcg(s)
           p == (s1 % Len(pool)) + 1
       IN  << pool[p] >> \o ChoiceFrom(RemoveAt(pool, p), k - 1, s1)

ChoiceDraw(n, k, s) == ChoiceFrom([j \in 1..n |-> j - 1], k, s)

\* ------------------------------------------------------------ DataFrame
\* A frame is its ordered column labels and one series per label; a series
\* maps the row labels 0..N-1 to values.
EmptyFrame == [cols |-> << >>, val |-> << >>]

Range(q) == {q[j] : j \in DOMAIN q}

\* data[name] = series
SetItem(d, name, f) ==
  [cols |-> IF name \in Range(d.cols) THEN d.cols ELSE Append(d.cols, name),
   val  |-> [c \in (DOMAIN d.val) \cup {name} |->
               IF c = name THEN f ELSE d.val[c]]]

\* a positional array as a series over the row labels
AsSeries(arr) == [i \in 0..(Len(arr) - 1) |-> arr[i + 1]]

PosOf(idx, i) == CHOOSE j \in DOMAIN idx : idx[j] = i

\* variant: the rows taken by position (iloc) instead of by label
LocAddPositional(f, idx, arr) ==
  [i \in DOMAIN f |-> IF i < Len(idx) THEN f[i] + arr[i + 1] ELSE f[i]]

\* data.loc[idx, col] += arr
LocAdd(f, idx, arr) ==
  [i \in DOMAIN f |-> IF i \in Range(idx) THEN f[i] + arr[PosOf(idx, i)]
                                          ELSE f[i]]

\* data.loc[idx, col] = g, g a series over the selected rows
LocSet(f, idx, g) ==
  [i \in DOMAIN f |-> IF i \in Range(idx) THEN g[i] ELSE f[i]]

\* round-half-even to two decimals, kept in fixed-point units
Round2(x) ==
  LET q == x \div 100
      r == x % 100
  IN  IF r < 50 THEN q * 100
      ELSE IF r > 50 THEN (q + 1) * 100
      ELSE IF q % 2 = 0 THEN q * 100 ELSE (q + 1) * 100

\* quotient a / b of two positive fixed-point values, to the nearest unit
Quotient(a, b) ==
  LET q  == a \div b
      r  == a % b
      f1 == (r * 100) \div b
      r1 == (r * 100) % b
      f2 == (r1 * 100) \div b
      r2 == (r1 * 100) % b
  IN  q * Scale + f1 * 100 + f2 + (IF 2 * r2 >= b THEN 1 ELSE 0)

\* ------------------------------------------------------------- formulas
LsfFormula(lime, noise) ==
  95 * Scale + ((lime - limestone_feed_rate_mean) * 25) \div 10 + noise

FreeLimeFormula(fuel, lsf, noise) ==
  1 * Scale - ((fuel - fuel_feed_rate_mean) * 5) \div 10
            + ((lsf - 95 * Scale) * 4) \div 10 + noise

ThermalFormula(rawmeal, alt, noise) ==
  750 * Scale + (rawmeal - raw_meal_feed_rate_mean) * 5
              - (alt - fuel_alt_substitution_rate_mean) * 2 + noise

NoxFormula(fuel, alt, noise) ==
  400 * Scale + (fuel - fuel_feed_rate_mean) * 50
              + (alt - fuel_alt_substitution_rate_mean) * 3 + noise

PowerFormula(clinker, recirc, freelime, noise) ==
  4800 * Scale + (clinker - clinker_feed_rate_mill_mean) * 20
               + (recirc - mill_recirculation_ratio_mean) * 10
               - (freelime - 1 * Scale) * 50 + noise

FinenessFormula(clinker, power, noise) ==
  3600 * Scale - (clinker - clinker_feed_rate_mill_mean) * 15
               - (power - 4800 * Scale) \div 10 + noise

EnergyFormula(power, clinker, gypsum) == Quotient(power, clinker + gypsum)

\* High-LSF free lime: the LSF-only dependency plus the scenario term
HighLsfFreeLime(lsf, term) == 1 * Scale + ((lsf - 95 * Scale) * 4) \div 10 + term

\* ---------------------------------------------------------------- state
VARIABLES
  NUM_POINTS,                \* configured row count
  seed,                      \* configured seed of np.random.seed
  clock,                     \* wall clock, in ticks
  runs,                      \* number of the current run of the script
  pc,                        \* source line of the next statement
  rng,                       \* state of the global np.random generator
  data,                      \* the DataFrame
  num_problems,
  high_lsf_indices,
  mill_ineff_indices,
  kiln_instability_indices,
  csv,                       \* contents of the output file
  prev_csv,                  \* history: the file before the last write
  drawlog,                   \* history: the random draws made, in order
  base                       \* history: the frame before anomaly injection

VARIABLES
  service,                   \* the HTTP service this process runs, if any
  started,                   \* the service module has been imported
  global_endpoints,          \* KPI names with an initialized Endpoint object
  gemini_client,             \* the module-level _gemini_client
  clients_made,              \* number of genai.Client objects constructed
  bucket,                    \* blob names stored under the bucket
  reqs                       \* the inbound requests and their handling

config == << NUM_POINTS, seed >>
scenario_vars == << num_problems, high_lsf_indices, mill_ineff_indices,
                    kiln_instability_indices >>
file_vars == << csv, prev_csv >>
vars == << NUM_POINTS, seed, clock, runs, pc, rng, data, num_problems,
           high_lsf_indices, mill_ineff_indices, kiln_instability_indices,
           csv, prev_csv, drawlog, base,
           service, started, global_endpoints, gemini_client, clients_made,
           bucket, reqs >>
gen_vars == << NUM_POINTS, seed, clock, runs, pc, rng, data, num_problems,
               high_lsf_indices, mill_ineff_indices, kiln_instability_indices,
               csv, prev_csv, drawlog, base >>
svc_vars == << service, started, global_endpoints, gemini_client, clients_made,
               bucket, reqs >>

\* no service: the process runs the generator script
NoService == "none"

\* _gemini_client = None: no client object yet
NoClient == 0

SeedChoices == (0..MaxSeed) \cup {SEED}

Rows == 0..(NUM_POINTS - 1)

\* len(data): the number of row labels
RowCount(d) == Cardinality(DOMAIN d.val[d.cols[1]])

Col(name) == data.val[name]

Logged(line, kind, vals) ==
  Append(drawlog, [line |-> line, kind |-> kind, vals |-> vals])

Init ==
  /\ NUM_POINTS \in MinPoints..MaxPoints
  /\ seed \in SeedChoices
  /\ clock = 0
  /\ runs = 1
  /\ pc = FirstLine
  /\ rng = 0
  /\ data = EmptyFrame
  /\ num_problems = 0
  /\ high_lsf_indices = << >>
  /\ mill_ineff_indices = << >>
  /\ kiln_instability_indices = << >>
  /\ csv = EmptyFrame
  /\ prev_csv = EmptyFrame
  /\ drawlog = << >>
  /\ base = EmptyFrame
  /\ service = NoService
  /\ started = FALSE
  /\ global_endpoints = {}
  /\ gemini_client = NoClient
  /\ clients_made = 0
  /\ bucket = {}
  /\ reqs = << >>

\* --- 3. GENERATE BASE DATA
\* variant: np.random.seed() without an argument, seeded from the clock
SeedGeneratorFromClock ==
  /\ pc = 34
  /\ rng' = SeedState(clock + 1)
  /\ pc' = NextLine(pc)
  /\ UNCHANGED << config, clock, runs, data, scenario_vars, file_vars,
                  drawlog, base >>
  /\ UNCHANGED svc_vars

\* line 34: np.random.seed(42)
SeedGenerator ==
  /\ pc = 34
  /\ rng' = SeedState(seed)
  /\ pc' = NextLine(pc)
  /\ UNCHANGED << config, clock, runs, data, scenario_vars, file_vars,
                  drawlog, base >>
  /\ UNCHANGED svc_vars

\* lines 35-36: one datetime.now() per row; the clock may advance between
\* two calls (here: by one tick, before the call for row j).
TimestampsAt(now, j) ==
  [i \in Rows |-> (IF j > 0 /\ i >= j THEN now + 1 ELSE now)
                  - i * INTERVAL_MINUTES * TicksPerMinute]

GenerateTimestamps ==
  /\ pc = 35
  /\ \E j \in 0..MaxJitter :
       /\ data' = SetItem(EmptyFrame, cTimestamp, TimestampsAt(clock, j))
       /\ clock' = IF j > 0 THEN clock + 1 ELSE clock
  /\ pc' = NextLine(pc)
  /\ UNCHANGED << config, runs, rng, scenario_vars, file_vars, drawlog, base >>
  /\ UNCHANGED svc_vars

\* lines 39-41, 43-51: the independently sampled variables
SampledLines == {39, 40, 41, 43, 44, 45, 46, 47, 48, 49, 50, 51}

Sampled(line) ==
  CASE line = 39 -> [col |-> cLimestone, mean |-> limestone_feed_rate_mean, std |-> 15000]
    [] line = 40 -> [col |-> cClay, mean |-> clay_feed_rate_mean, std |-> 10000]
    [] line = 41 -> [col |-> cIronOre, mean |-> iron_ore_feed_rate_mean, std |-> 3000]
    [] line = 43 -> [col |-> cRawMeal, mean |-> raw_meal_feed_rate_mean, std |-> raw_meal_feed_rate_std]
    [] line = 44 -> [col |-> cFuel, mean |-> fuel_feed_rate_mean, std |-> fuel_feed_rate_std]
    [] line = 45 -> [col |-> cFuelAlt, mean |-> fuel_alt_substitution_rate_mean, std |-> fuel_alt_substitution_rate_std]
    [] line = 46 -> [col |-> cHood, mean |-> kiln_hood_pressure_mean, std |-> kiln_hood_pressure_std]
    [] line = 47 -> [col |-> cAirFlow, mean |-> kiln_burner_air_flow_mean, std |-> kiln_burner_air_flow_std]
    [] line = 48 -> [col |-> cClinker, mean |-> clinker_feed_rate_mill_mean, std |-> clinker_feed_rate_mill_std]
    [] line = 49 -> [col |-> cGypsum, mean |-> gypsum_feed_rate_mean, std |-> gypsum_feed_rate_std]
    [] line = 50 -> [col |-> cRecirc, mean |-> mill_recirculation_ratio_mean, std |-> mill_recirculation_ratio_std]
    [] line = 51 -> [col |-> cCurrent, mean |-> kiln_main_drive_current_mean, std |-> kiln_main_drive_current_std]

SampleVariable ==
  /\ pc \in SampledLines
  /\ LET v   == Sampled(pc)
         arr == NormalDraw(v.mean, v.std, NUM_POINTS, rng)
     IN  /\ data' = SetItem(data, v.col, AsSeries(arr))
         /\ drawlog' = Logged(pc, "sample", arr)
  /\ rng' = LcgIter(rng, NUM_POINTS)
  /\ pc' = NextLine(pc)
  /\ UNCHANGED << config, clock, runs, scenario_vars, file_vars, base >>
  /\ UNCHANGED svc_vars

\* line 42: bauxite is the remainder of the blend
BauxiteRemainder(lime, clay, iron) == 100 * Scale - (lime + clay + iron)

DeriveBauxite ==
  /\ pc = 42
  /\ data' = SetItem(data, cBauxite,
               [i \in Rows |-> BauxiteRemainder(Col(cLimestone)[i],
                                                Col(cClay)[i], Col(cIronOre)[i])])
  /\ pc' = NextLine(pc)
  /\ UNCHANGED << config, clock, runs, rng, scenario_vars, file_vars,
                  drawlog, base >>
  /\ UNCHANGED svc_vars

\* --- 4. SIMULATE TARGET KPIs
KpiLines == {55, 56, 57, 58, 59, 60}

KpiStd(line) ==
  CASE line = 55 -> 5000
    [] line = 56 -> 1000
    [] line = 57 -> 100000
    [] line = 58 -> 200000
    [] line = 59 -> 500000
    [] line = 60 -> 500000

KpiCol(line) ==
  CASE line = 55 -> cLsf
    [] line = 56 -> cFreeLime
    [] line = 57 -> cThermal
    [] line = 58 -> cNox
    [] line = 59 -> cPower
    [] line = 60 -> cFineness

\* the value line `line` gives row i of frame d, with noise term e
KpiValue(line, d, i, e) ==
  CASE line = 55 -> LsfFormula(d.val[cLimestone][i], e)
    [] line = 56 -> FreeLimeFormula(d.val[cFuel][i], d.val[cLsf][i], e)
    [] line = 57 -> ThermalFormula(d.val[cRawMeal][i], d.val[cFuelAlt][i], e)
    [] line = 58 -> NoxFormula(d.val[cFuel][i], d.val[cFuelAlt][i], e)
    [] line = 59 -> PowerFormula(d.val[cClinker][i], d.val[cRecirc][i],
                                 d.val[cFreeLime][i], e)
    [] line = 60 -> FinenessFormula(d.val[cClinker][i], d.val[cPower][i], e)

ComputeKpi ==
  /\ pc \in KpiLines
  /\ LET noise == NormalDraw(0, KpiStd(pc), NUM_POINTS, rng)
     IN  /\ data' = SetItem(data, KpiCol(pc),
                      [i \in Rows |-> KpiValue(pc, data, i, noise[i + 1])])
         /\ drawlog' = Logged(pc, "noise", noise)
  /\ rng' = LcgIter(rng, NUM_POINTS)
  /\ pc' = NextLine(pc)
  /\ UNCHANGED << config, clock, runs, scenario_vars, file_vars, base >>
  /\ UNCHANGED svc_vars

\* line 61: the electrical-energy ratio, no noise
ComputeEnergy ==
  /\ pc = 61
  /\ data' = SetItem(data, cEnergy,
               [i \in Rows |-> EnergyFormula(Col(cPower)[i], Col(cClinker)[i],
                                             Col(cGypsum)[i])])
  /\ pc' = NextLine(pc)
  /\ UNCHANGED << config, clock, runs, rng, scenario_vars, file_vars,
                  drawlog, base >>
  /\ UNCHANGED svc_vars

\* --- 5. INTRODUCE PROBLEMATIC SCENARIOS
\* variant: rounding up instead of truncating
NumProblemsCeil(n) == (n * 15 + 99) \div 100

\* int(x * 0.15)
NumProblems(n) == (n * 15) \div 100

SubsetSize == num_problems \div num_scenarios

\* lines 64-65; the frame as it stands is recorded in base
CountProblems ==
  /\ pc = 64
  /\ num_problems' = NumProblems(RowCount(data))
  /\ base' = data
  /\ pc' = NextLine(pc)
  /\ UNCHANGED << config, clock, runs, rng, data, high_lsf_indices,
                  mill_ineff_indices, kiln_instability_indices, file_vars,
                  drawlog >>
  /\ UNCHANGED svc_vars

\* lines 68, 74, 80: np.random.choice(data.index, k, replace=False)
ChooseHighLsf ==
  /\ pc = 68
  /\ LET idx == ChoiceDraw(RowCount(data), SubsetSize, rng)
     IN  /\ high_lsf_indices' = idx
         /\ drawlog' = Logged(pc, "choice", idx)
  /\ rng' = LcgIter(rng, SubsetSize)
  /\ pc' = NextLine(pc)
  /\ UNCHANGED << config, clock, runs, data, num_problems, mill_ineff_indices,
                  kiln_instability_indices, file_vars, base >>
  /\ UNCHANGED svc_vars

ChooseMillIneff ==
  /\ pc = 74
  /\ LET idx == ChoiceDraw(RowCount(data), SubsetSize, rng)
     IN  /\ mill_ineff_indices' = idx
         /\ drawlog' = Logged(pc, "choice", idx)
  /\ rng' = LcgIter(rng, SubsetSize)
  /\ pc' = NextLine(pc)
  /\ UNCHANGED << config, clock, runs, data, num_problems, high_lsf_indices,
                  kiln_instability_indices, file_vars, base >>
  /\ UNCHANGED svc_vars

ChooseKilnInstability ==
  /\ pc = 80
  /\ LET idx == ChoiceDraw(RowCount(data), SubsetSize, rng)
     IN  /\ kiln_instability_indices' = idx
         /\ drawlog' = Logged(pc, "choice", idx)
  /\ rng' = LcgIter(rng, SubsetSize)
  /\ pc' = NextLine(pc)
  /\ UNCHANGED << config, clock, runs, data, num_problems, high_lsf_indices,
                  mill_ineff_indices, file_vars, base >>
  /\ UNCHANGED svc_vars

\* lines 69, 75, 76, 81, 82, 83: data.loc[idx, col] +/-= uniform(lo, hi, len(idx))
ShiftLines == {69, 75, 76, 81, 82, 83}

Shift(line) ==
  CASE line = 69 -> [col |-> cLimestone, lo |-> 4 * Scale,   hi |-> 8 * Scale,   sign |-> 1]
    [] line = 75 -> [col |-> cPower,     lo |-> 200 * Scale, hi |-> 400 * Scale, sign |-> 1]
    [] line = 76 -> [col |-> cFineness,  lo |-> 300 * Scale, hi |-> 500 * Scale, sign |-> -1]
    [] line = 81 -> [col |-> cCurrent,   lo |-> 30 * Scale,  hi |-> 60 * Scale,  sign |-> 1]
    [] line = 82 -> [col |-> cFreeLime,  lo |-> 5000,        hi |-> 8000,        sign |-> 1]
    [] line = 83 -> [col |-> cThermal,   lo |-> 50 * Scale,  hi |-> 80 * Scale,  sign |-> 1]

\* the index array the statement at `line` selects rows with
IndicesAt(line) ==
  IF line \in 68..71 THEN high_lsf_indices
  ELSE IF line \in 74..77 THEN mill_ineff_indices
  ELSE kiln_instability_indices

\* variant: the shifted value written over the baseline value (=, not +=)
ShiftColumnOverwriting ==
  /\ pc \in ShiftLines
  /\ LET sh  == Shift(pc)
         idx == IndicesAt(pc)
         arr == UniformDraw(sh.lo, sh.hi, Len(idx), rng)
     IN  /\ data' = SetItem(data, sh.col,
                      LocSet(Col(sh.col), idx,
                             [i \in Range(idx) |->
                                base.val[sh.col][i] + sh.sign * arr[PosOf(idx, i)]]))
         /\ drawlog' = Logged(pc, "magnitude", arr)
         /\ rng' = LcgIter(rng, Len(idx))
  /\ pc' = NextLine(pc)
  /\ UNCHANGED << config, clock, runs, scenario_vars, file_vars, base >>
  /\ UNCHANGED svc_vars

ShiftColumn ==
  /\ pc \in ShiftLines
  /\ LET sh  == Shift(pc)
         idx == IndicesAt(pc)
         arr == UniformDraw(sh.lo, sh.hi, Len(idx), rng)
     IN  /\ data' = SetItem(data, sh.col,
                      LocAdd(Col(sh.col), idx,
                             [j \in DOMAIN arr |-> sh.sign * arr[j]]))
         /\ drawlog' = Logged(pc, "magnitude", arr)
         /\ rng' = LcgIter(rng, Len(idx))
  /\ pc' = NextLine(pc)
  /\ UNCHANGED << config, clock, runs, scenario_vars, file_vars, base >>
  /\ UNCHANGED svc_vars

\* line 70: LSF recomputed from the raised limestone, with fresh noise
RecomputeLsf ==
  /\ pc = 70
  /\ LET idx   == high_lsf_indices
         noise == NormalDraw(0, 5000, Len(idx), rng)
     IN  /\ data' = SetItem(data, cLsf,
                      LocSet(Col(cLsf), idx,
                             [i \in Range(idx) |->
                                LsfFormula(Col(cLimestone)[i], noise[PosOf(idx, i)])]))
         /\ drawlog' = Logged(pc, "magnitude", noise)
         /\ rng' = LcgIter(rng, Len(idx))
  /\ pc' = NextLine(pc)
  /\ UNCHANGED << config, clock, runs, scenario_vars, file_vars, base >>
  /\ UNCHANGED svc_vars

\* line 71: free lime from the LSF-only dependency plus uniform(1.0, 1.5)
RecomputeFreeLime ==
  /\ pc = 71
  /\ LET idx  == high_lsf_indices
         term == UniformDraw(10000, 15000, Len(idx), rng)
     IN  /\ data' = SetItem(data, cFreeLime,
                      LocSet(Col(cFreeLime), idx,
                             [i \in Range(idx) |->
                                HighLsfFreeLime(Col(cLsf)[i], term[PosOf(idx, i)])]))
         /\ drawlog' = Logged(pc, "magnitude", term)
         /\ rng' = LcgIter(rng, Len(idx))
  /\ pc' = NextLine(pc)
  /\ UNCHANGED << config, clock, runs, scenario_vars, file_vars, base >>
  /\ UNCHANGED svc_vars

\* variant: the ratio of the mill-inefficiency rows left as it was
RecomputeEnergySkipped ==
  /\ pc = 77
  /\ pc' = 80
  /\ UNCHANGED << NUM_POINTS, seed, clock, runs, rng, data, num_problems,
                  high_lsf_indices, mill_ineff_indices,
                  kiln_instability_indices, csv, prev_csv, drawlog, base >>
  /\ UNCHANGED svc_vars

\* line 77: the energy ratio recomputed from the raised power draw
RecomputeEnergy ==
  /\ pc = 77
  /\ LET idx == mill_ineff_indices
     IN  data' = SetItem(data, cEnergy,
                   LocSet(Col(cEnergy), idx,
                          [i \in Range(idx) |->
                             EnergyFormula(Col(cPower)[i], Col(cClinker)[i],
                                           Col(cGypsum)[i])]))
  /\ pc' = NextLine(pc)
  /\ UNCHANGED << config, clock, runs, rng, scenario_vars, file_vars,
                  drawlog, base >>
  /\ UNCHANGED svc_vars

\* --- 6. FINALIZE AND SAVE DATA
\* line 86: data.round(2) rounds the numeric columns, not the timestamps
RoundFrame(d) ==
  [cols |-> d.cols,
   val  |-> [c \in DOMAIN d.val |->
               IF c = cTimestamp THEN d.val[c]
               ELSE [i \in DOMAIN d.val[c] |-> Round2(d.val[c][i])]]]

RoundData ==
  /\ pc = 86
  /\ data' = RoundFrame(data)
  /\ pc' = NextLine(pc)
  /\ UNCHANGED << config, clock, runs, rng, scenario_vars, file_vars,
                  drawlog, base >>
  /\ UNCHANGED svc_vars

\* line 97: data[column_order]; a label the frame lacks raises KeyError
SelectColumns(d, order) ==
  [cols |-> order, val |-> [c \in Range(order) |-> d.val[c]]]

ReorderColumns ==
  /\ pc = 97
  /\ IF Range(column_order) \subseteq Range(data.cols)
     THEN /\ data' = SelectColumns(data, column_order)
          /\ pc' = NextLine(pc)
     ELSE /\ pc' = RaisedLine
          /\ UNCHANGED data
  /\ UNCHANGED << config, clock, runs, rng, scenario_vars, file_vars,
                  drawlog, base >>
  /\ UNCHANGED svc_vars

\* line 108: data.columns = names, positionally; a length mismatch raises
\* variant: the frame keeps its column names
RenameKeepingNames(d, names) == d

RenamePositional(d, names) ==
  [cols |-> names,
   val  |-> [c \in Range(names) |->
               d.val[d.cols[CHOOSE p \in DOMAIN names : names[p] = c]]]]

RenameColumns ==
  /\ pc = 108
  /\ IF Len(bq_friendly_columns) = Len(data.cols)
     THEN /\ data' = RenamePositional(data, bq_friendly_columns)
          /\ pc' = NextLine(pc)
     ELSE /\ pc' = RaisedLine
          /\ UNCHANGED data
  /\ UNCHANGED << config, clock, runs, rng, scenario_vars, file_vars,
                  drawlog, base >>
  /\ UNCHANGED svc_vars

\* line 111: data.to_csv(file_path) overwrites the file
SaveCsv ==
  /\ pc = 111
  /\ csv' = data
  /\ prev_csv' = csv
  /\ pc' = NextLine(pc)
  /\ UNCHANGED << config, clock, runs, rng, data, scenario_vars, drawlog, base >>
  /\ UNCHANGED svc_vars

\* the script is run again, later, with the same configuration
RunAgain ==
  /\ pc = DoneLine
  /\ runs < MaxRuns
  /\ runs' = runs + 1
  /\ clock' = clock + 1
  /\ pc' = FirstLine
  /\ rng' = 0
  /\ data' = EmptyFrame
  /\ num_problems' = 0
  /\ high_lsf_indices' = << >>
  /\ mill_ineff_indices' = << >>
  /\ kiln_instability_indices' = << >>
  /\ drawlog' = << >>
  /\ base' = EmptyFrame
  /\ UNCHANGED << config, file_vars >>
  /\ UNCHANGED svc_vars

Next ==
  \/ SeedGenerator
  \/ GenerateTimestamps
  \/ SampleVariable
  \/ DeriveBauxite
  \/ ComputeKpi
  \/ ComputeEnergy
  \/ CountProblems
  \/ ChooseHighLsf
  \/ ShiftColumn
  \/ RecomputeLsf
  \/ RecomputeFreeLime
  \/ ChooseMillIneff
  \/ RecomputeEnergy
  \/ ChooseKilnInstability
  \/ RoundData
  \/ ReorderColumns
  \/ RenameColumns
  \/ SaveCsv
  \/ RunAgain

Spec == Init /\ [][Next]_vars

\* ===================================================================
\* The HTTP services (src/backend)
\* ===================================================================
MaxReqs == 2
MaxBlobs == 2

ImageService == "image-analysis-kiln"
FreeLimeService == "prediction-clinker-free-lime"
ThermalService == "prediction-kiln-thermal-energy"
RecommendationService == "recommendation-after-prediction"
RegressionServices == {FreeLimeService, ThermalService}
GeminiServices == {ImageService, RecommendationService}
Services == RegressionServices \cup GeminiServices

Requests == 1..MaxReqs

\* ---- requests and responses --------------------------------------
EmptyDict == [k \in {} |-> "null"]

\* request bodies: not parseable as JSON, the JSON value null, a non-empty
\* JSON array, a JSON object with the given keys
Malformed == [json |-> "malformed", fields |-> EmptyDict]
JsonNull == [json |-> "null", fields |-> EmptyDict]
JsonArray == [json |-> "array", fields |-> EmptyDict]
JsonObject(f) == [json |-> "object", fields |-> f]

\* request.get_json(silent=...): malformed JSON raises BadRequest, or gives
\* None when silent; the JSON value null is None
get_json(body, silent) ==
  CASE body.json = "malformed" /\ ~silent ->
         [raised |-> "BadRequest", value |-> JsonNull]
    [] body.json = "malformed" /\ silent ->
         [raised |-> "", value |-> JsonNull]
    [] OTHER -> [raised |-> "", value |-> body]

IsNone(v) == v.json = "null"

\* Python truth value of a parsed body: None and {} are false
Falsy(v) == IsNone(v) \/ (v.json = "object" /\ DOMAIN v.fields = {})

\* dict.get(key): None for an absent key (a JSON null value is None as well)
DictGet(d, key) == IF key \in DOMAIN d THEN d[key] ELSE "null"

CorsOrigin == << "Access-Control-Allow-Origin", "*" >>
CorsHeaders == << "Access-Control-Allow-Headers", "Content-Type" >>
CorsMethods == << "Access-Control-Allow-Methods", "POST, OPTIONS" >>

\* the body of a response: its kind, the keys of its JSON object, its value
Payload(kind, keys, value) == [kind |-> kind, keys |-> keys, value |-> value]
ErrorPayload(exc) == Payload("error", {"error"}, exc)

NewRequest ==
  [pc |-> "idle", method |-> "", body |-> JsonNull, status |-> 0,
   headers |-> {}, resp |-> Payload("", {}, ""), read |-> FALSE,
   ext |-> << >>, client |-> NoClient, made |-> FALSE, prompt |-> << >>]

\* the handler returns: status, headers and body of the response
Respond(q, status, headers, resp) ==
  [q EXCEPT !.pc = "done", !.status = status, !.headers = headers,
            !.resp = resp]

\* requests are taken up in the order of their numbers
CanArrive(r) ==
  /\ started
  /\ reqs[r].pc = "idle"
  /\ r > 1 => reqs[r - 1].pc # "idle"

Methods == {"POST", "OPTIONS"}

\* ---- the two regression services ---------------------------------
TARGET_KPI(svc) ==
  IF svc = ThermalService THEN "kiln_specific_thermal_energy_Kcal/kg_clinker"
  ELSE "clinker_free_lime_%"

ThermalEndpointIds ==
  [k \in {"kiln_specific_thermal_energy_Kcal/kg_clinker",
          "clinker_free_lime_%"} |->
     IF k = "clinker_free_lime_%" THEN "6552534048172933120"
     ELSE "8596851619650338816"]

FreeLimeEndpointIds ==
  [k \in {"clinker_free_lime_%", "raw_meal_lsf_ratio",
          "kiln_specific_thermal_energy_Kcal/kg_clinker",
          "kiln_exit_nox_emissions_mg/Nm3", "mill_motor_power_draw_kW",
          "mill_specific_electrical_energy_kWh/ton_cement",
          "cement_fineness_blaine_cm2/g"} |->
     CASE k = "clinker_free_lime_%" -> "6552534048172933120"
       [] k = "raw_meal_lsf_ratio" -> "your-raw-meal-lsf-deployed-model-id"
       [] k = "kiln_specific_thermal_energy_Kcal/kg_clinker" ->
            "your-kiln-thermal-energy-deployed-model-id"
       [] k = "kiln_exit_nox_emissions_mg/Nm3" ->
            "your-kiln-nox-deployed-model-id"
       [] k = "mill_motor_power_draw_kW" ->
            "your-mill-motor-power-deployed-model-id"
       [] k = "mill_specific_electrical_energy_kWh/ton_cement" ->
            "your-mill-specific-electrical-energy-deployed-model-id"
       [] OTHER -> "your-cement-fineness-deployed-model-id"]

MODEL_ENDPOINT_IDS(svc) ==
  IF svc = ThermalService THEN ThermalEndpointIds ELSE FreeLimeEndpointIds

\* endpoint_id.startswith("your-")
StartsWithYour(id) ==
  id \in {"your-raw-meal-lsf-deployed-model-id",
          "your-kiln-thermal-energy-deployed-model-id",
          "your-kiln-nox-deployed-model-id",
          "your-mill-motor-power-deployed-model-id",
          "your-mill-specific-electrical-energy-deployed-model-id",
          "your-cement-fineness-deployed-model-id"}

\* the features of the target KPI's model, in the order of the list
ThermalFeatures ==
  << "raw_meal_feed_rate_tph", "fuel_feed_rate_tph",
     "fuel_alt_substitution_rate_pct", "kiln_hood_pressure_mmH2O",
     "kiln_burner_air_flow_m3_hr", "kiln_main_drive_current_amp" >>

FreeLimeFeatures ==
  << "raw_meal_lsf_ratio", "limestone_feed_rate_pct", "clay_feed_rate_pct",
     "iron_ore_feed_rate_pct", "bauxite_feed_rate_pct",
     "raw_meal_feed_rate_tph", "fuel_feed_rate_tph",
     "fuel_alt_substitution_rate_pct", "kiln_hood_pressure_mmH2O",
     "kiln_burner_air_flow_m3_hr", "kiln_main_drive_current_amp" >>

MODEL_FEATURES(svc) ==
  IF svc = ThermalService THEN ThermalFeatures ELSE FreeLimeFeatures

\* the KPIs whose endpoint the module tries to construct at import: the
\* thermal service its target only, the free-lime service every listed one
KpisAtStartup(svc) ==
  IF svc = ThermalService THEN {TARGET_KPI(svc)}
  ELSE DOMAIN MODEL_ENDPOINT_IDS(svc)

\* module import of a regression service: global_endpoints is filled once
InitializeEndpoints ==
  /\ service \in RegressionServices
  /\ ~started
  /\ \E project_id \in BOOLEAN, constructed \in BOOLEAN :
       global_endpoints' =
         { k \in KpisAtStartup(service) :
             /\ project_id
             /\ ~StartsWithYour(MODEL_ENDPOINT_IDS(service)[k])
             /\ constructed }
  /\ started' = TRUE
  /\ UNCHANGED << gen_vars, service, gemini_client, clients_made, bucket, reqs >>

\* values a feature can have in the request: a JSON number, a string that is
\* no number, null, a list
ValueKinds == {"number", "text", "null", "list"}

\* request objects for a feature list: every feature a number, then with
\* the first, the last or every feature left out and at most one of the
\* first and last given another kind of value
RegressionObjects(features) ==
  LET all    == Range(features)
      first  == features[1]
      last   == features[Len(features)]
      full   == [f \in all |-> "number"]
      absent == {{}, {first}, {last}, all}
  IN  { [f \in all \ a |-> full[f]] : a \in absent }
      \cup { [f \in all \ a |-> IF f = b THEN k ELSE full[f]] :
               a \in absent \ {all}, b \in {first, last},
               k \in ValueKinds \ {"number"} }

RegressionBodies(svc) ==
  {Malformed, JsonNull, JsonArray}
    \cup { JsonObject(f) : f \in RegressionObjects(MODEL_FEATURES(svc)) }

\* what endpoint.predict can give: predictions[0] a number, {'value': number},
\* {'value': text}, null, no predictions at all, something else; or it raises
PredictionKinds ==
  {"number", "dict_number", "dict_text", "null", "empty", "other", "raises"}

\* get_vertex_prediction: the value returned ("None" for None); the thermal
\* service returns prediction['value'] as it is, the free-lime service
\* converts it with float(), whose ValueError the function catches
get_vertex_prediction(svc, prediction) ==
  CASE prediction = "number" -> "number"
    [] prediction = "dict_number" -> "number"
    [] prediction = "dict_text" ->
         IF svc = ThermalService THEN "text" ELSE "None"
    [] OTHER -> "None"

\* float(v) over the features in order: the exception of the first value
\* that does not convert, "" when all convert
RECURSIVE FloatAll(_, _)
FloatAll(features, input_data) ==
  IF features = << >> THEN ""
  ELSE LET v == input_data[Head(features)]
       IN  CASE v = "text" -> "ValueError"
             [] v = "list" -> "TypeError"
             [] OTHER -> FloatAll(Tail(features), input_data)

\* what a handler did: the response, whether the body was read, and the
\* external calls made, each with what it gave
Outcome(status, headers, resp, read, ext) ==
  [status |-> status, headers |-> headers, resp |-> resp, read |-> read,
   ext |-> ext]

\* except ValueError -> 400, except Exception -> 500
RegressionCaught(exc, ext) ==
  Outcome(IF exc = "ValueError" THEN 400 ELSE 500, {CorsOrigin},
          ErrorPayload(exc), TRUE, ext)

\* variant: the features checked before the endpoint
ThermalFlaskPredictFeaturesFirst(method, body, endpoints, prediction) ==
  IF method = "OPTIONS"
  THEN Outcome(200, {CorsOrigin, CorsHeaders, CorsMethods},
               Payload("status", {"status"}, "OK"), FALSE, << >>)
  ELSE
  LET got      == get_json(body, FALSE)
      kpi      == TARGET_KPI(ThermalService)
      features == MODEL_FEATURES(ThermalService)
  IN
  IF got.raised # "" THEN RegressionCaught(got.raised, << >>)
  ELSE IF IsNone(got.value) THEN RegressionCaught("ValueError", << >>)
  ELSE IF got.value.json # "object"
  THEN RegressionCaught("AttributeError", << >>)
  ELSE
  LET input_data == [f \in Range(features) |-> DictGet(got.value.fields, f)]
      missing    == {f \in Range(features) : input_data[f] = "null"}
      floated    == FloatAll(features, input_data)
      predicted  == get_vertex_prediction(ThermalService, prediction)
      called     == << << "endpoint.predict", prediction >> >>
  IN
  IF missing # {}
  THEN Outcome(400, {CorsOrigin}, ErrorPayload("missing features"), TRUE, << >>)
  ELSE IF kpi \notin endpoints
  THEN Outcome(503, {CorsOrigin}, ErrorPayload("unavailable"), TRUE, << >>)
  ELSE IF floated # "" THEN RegressionCaught(floated, << >>)
  ELSE IF predicted = "number"
  THEN Outcome(200, {CorsOrigin}, Payload("prediction", {kpi}, "number"),
               TRUE, called)
  ELSE IF predicted = "text" THEN RegressionCaught("TypeError", called)
  ELSE Outcome(500, {CorsOrigin}, ErrorPayload("invalid or null value"),
               TRUE, called)

\* thermal service, flask_predict
ThermalFlaskPredict(method, body, endpoints, prediction) ==
  IF method = "OPTIONS"
  THEN Outcome(200, {CorsOrigin, CorsHeaders, CorsMethods},
               Payload("status", {"status"}, "OK"), FALSE, << >>)
  ELSE
  LET got      == get_json(body, FALSE)
      kpi      == TARGET_KPI(ThermalService)
      features == MODEL_FEATURES(ThermalService)
  IN
  IF got.raised # "" THEN RegressionCaught(got.raised, << >>)
  ELSE IF IsNone(got.value) THEN RegressionCaught("ValueError", << >>)
  ELSE IF kpi \notin endpoints
  THEN Outcome(503, {CorsOrigin}, ErrorPayload("unavailable"), TRUE, << >>)
  ELSE IF got.value.json # "object"
  THEN RegressionCaught("AttributeError", << >>)
  ELSE
  LET input_data == [f \in Range(features) |-> DictGet(got.value.fields, f)]
      missing    == {f \in Range(features) : input_data[f] = "null"}
      floated    == FloatAll(features, input_data)
      predicted  == get_vertex_prediction(ThermalService, prediction)
      called     == << << "endpoint.predict", prediction >> >>
  IN
  IF missing # {}
  THEN Outcome(400, {CorsOrigin}, ErrorPayload("missing features"), TRUE, << >>)
  ELSE IF floated # "" THEN RegressionCaught(floated, << >>)
  ELSE IF predicted = "number"
  THEN Outcome(200, {CorsOrigin}, Payload("prediction", {kpi}, "number"),
               TRUE, called)
  ELSE IF predicted = "text" THEN RegressionCaught("TypeError", called)
  ELSE Outcome(500, {CorsOrigin}, ErrorPayload("invalid or null value"),
               TRUE, called)

\* free-lime service, flask_predict
FreeLimeFlaskPredict(method, body, endpoints, prediction) ==
  IF method = "OPTIONS"
  THEN Outcome(200, {CorsOrigin, CorsHeaders, CorsMethods},
               Payload("status", {"status"}, "OK"), FALSE, << >>)
  ELSE
  LET got      == get_json(body, FALSE)
      kpi      == TARGET_KPI(FreeLimeService)
      features == MODEL_FEATURES(FreeLimeService)
      null     == Payload("prediction", {kpi}, "null")
  IN
  IF got.raised # "" THEN RegressionCaught(got.raised, << >>)
  ELSE IF IsNone(got.value) THEN RegressionCaught("ValueError", << >>)
  ELSE IF kpi \notin endpoints
  THEN Outcome(200, {CorsOrigin}, null, TRUE, << >>)
  ELSE IF got.value.json # "object"
  THEN RegressionCaught("AttributeError", << >>)
  ELSE
  LET input_data == [f \in Range(features) |-> DictGet(got.value.fields, f)]
      missing    == {f \in Range(features) : input_data[f] = "null"}
      floated    == FloatAll(features, input_data)
      predicted  == get_vertex_prediction(FreeLimeService, prediction)
      called     == << << "endpoint.predict", prediction >> >>
  IN
  IF missing # {} THEN Outcome(200, {CorsOrigin}, null, TRUE, << >>)
  ELSE IF floated # "" THEN RegressionCaught(floated, << >>)
  ELSE IF predicted = "number"
  THEN Outcome(200, {CorsOrigin}, Payload("prediction", {kpi}, "number"),
               TRUE, called)
  ELSE Outcome(200, {CorsOrigin}, null, TRUE, called)

\* the handler of a regression service runs on request r
Handled(q, method, body, out) ==
  [Respond(q, out.status, out.headers, out.resp)
     EXCEPT !.method = method, !.body = body, !.read = out.read,
            !.ext = out.ext]

ThermalPredict(r) ==
  /\ service = ThermalService
  /\ CanArrive(r)
  /\ \E method \in Methods, body \in RegressionBodies(service),
        prediction \in PredictionKinds :
       reqs' = [reqs EXCEPT ![r] =
                  Handled(@, method, body,
                          ThermalFlaskPredict(method, body, global_endpoints,
                                              prediction))]
  /\ UNCHANGED << gen_vars, service, started, global_endpoints, gemini_client,
                  clients_made, bucket >>

FreeLimePredict(r) ==
  /\ service = FreeLimeService
  /\ CanArrive(r)
  /\ \E method \in Methods, body \in RegressionBodies(service),
        prediction \in PredictionKinds :
       reqs' = [reqs EXCEPT ![r] =
                  Handled(@, method, body,
                          FreeLimeFlaskPredict(method, body, global_endpoints,
                                               prediction))]
  /\ UNCHANGED << gen_vars, service, started, global_endpoints, gemini_client,
                  clients_made, bucket >>

\* ---- the two services that call the generative model ---------------
GCS_BUCKET_NAME == "hackathon-cement-plant-image-data"
KILN_GCS_PREFIX == "kiln/"
FUEL_RATE_VARIABLE == "fuel_feed_rate_tph"

\* blob names, each as the pieces it is made of, listed in ascending order
\* of the name as a string
BlobUniverse ==
  << << "kiln/" >>,
     << "kiln/", "KILN_OPERATING_NORMAL", "_9", ".JPG" >>,
     << "kiln/", "kiln_operating_normal", "_01", ".jpg" >>,
     << "kiln/", "kiln_overheating_anomaly_high", "_02", ".png" >>,
     << "kiln/", "kiln_overheating_anomaly_high", "_vs_",
        "kiln_operating_normal", ".webp" >>,
     << "kiln/", "kiln_overheating_anomaly_medium", "_03", ".jpeg" >>,
     << "kiln/", "kiln_overheating_anomaly_medium", "_then_",
        "kiln_overheating_anomaly_high", ".jpg" >>,
     << "kiln/", "readme", ".txt" >>,
     << "kiln/", "shell_scan_07", ".jpg" >> >>

Buckets == {b \in SUBSET Range(BlobUniverse) : Cardinality(b) <= MaxBlobs}

\* the orders in which a listing can return the blobs of a set
Orderings(S) ==
  {o \in [1..Cardinality(S) -> S] : \A i, j \in DOMAIN o : o[i] = o[j] => i = j}

\* str.lower() on a piece of a name
LowerPiece(t) ==
  CASE t = ".JPG" -> ".jpg"
    [] t = "_9" -> "_9"
    [] t = "KILN_OPERATING_NORMAL" -> "kiln_operating_normal"
    [] OTHER -> t

\* f"gs://{bucket_name}/{blob.name}"
Uri(name) == << "gs://", GCS_BUCKET_NAME, "/" >> \o name

\* blob.name.lower().endswith(('.jpg', '.jpeg', '.png', '.webp'))
IsImageName(name) ==
  LowerPiece(name[Len(name)]) \in {".jpg", ".jpeg", ".png", ".webp"}

\* position of a URI in the ascending order of strings
UriRank(uri) == CHOOSE k \in DOMAIN BlobUniverse : Uri(BlobUniverse[k]) = uri

\* variant: the listing returned in the order the store gave it
get_gcs_image_uris_unsorted(listing) ==
  LET kept == SelectSeq(listing,
                LAMBDA name : name # << KILN_GCS_PREFIX >> /\ IsImageName(name))
      uris == [k \in DOMAIN kept |-> Uri(kept[k])]
  IN  IF uris = << >> THEN [raised |-> "ValueError", uris |-> << >>]
      ELSE [raised |-> "", uris |-> uris]

\* get_gcs_image_uris: the image blobs under the prefix as URIs, sorted;
\* ValueError when there is none
get_gcs_image_uris(listing) ==
  LET kept == SelectSeq(listing,
                LAMBDA name : name # << KILN_GCS_PREFIX >> /\ IsImageName(name))
      uris == [k \in DOMAIN kept |-> Uri(kept[k])]
  IN  IF uris = << >> THEN [raised |-> "ValueError", uris |-> << >>]
      ELSE [raised |-> "",
            uris |-> SortSeq(uris, LAMBDA a, b : UriRank(a) < UriRank(b))]

\* "<substring>" in uri
Contains(uri, piece) == piece \in Range(uri)

\* os.path.basename(uri)
Basename(uri) == SubSeq(uri, 5, Len(uri))

Label(type, finding, name, severity, action, tenths, text) ==
  [recommendation_type |-> type,
   kpi_focus |-> "kiln_specific_thermal_energy_Kcal/kg_clinker",
   visual_finding |-> [text |-> finding, name |-> name],
   severity_level |-> severity,
   adjustments |-> << [variable |-> FUEL_RATE_VARIABLE, action |-> action,
                       value |-> tenths] >>,
   recommendation |-> text]

\* variant: the high-severity marker looked for first
get_target_json_high_first(uri) ==
  IF Contains(uri, "kiln_overheating_anomaly_high")
  THEN Label("CRITICAL_ALERT", "Severe, extensive overheating anomaly", << >>,
             "high", "DECREASE", 3, "CRITICAL ALERT: decrease by 0.3 tph")
  ELSE IF Contains(uri, "kiln_operating_normal")
  THEN Label("KILN_SETPOINT_ADJUSTMENT", "Stable flame", << >>, "low",
             "MAINTAIN", 0, "Continue maintaining between 9.2 and 9.8 tph")
  ELSE IF Contains(uri, "kiln_overheating_anomaly_medium")
  THEN Label("WARNING", "Medium overheating anomaly", << >>, "medium",
             "DECREASE", 2, "WARNING: reduce by 0.2 tph")
  ELSE Label("WARNING", "Unclassified thermal deviation", Basename(uri),
             "medium", "DECREASE", 2, "Unclassified: decrease by 0.2 tph")

\* variant: every DECREASE label asks for the same 0.2 tph
get_target_json_flat_decrease(uri) ==
  IF Contains(uri, "kiln_operating_normal")
  THEN Label("KILN_SETPOINT_ADJUSTMENT", "Stable flame", << >>, "low",
             "MAINTAIN", 0, "Continue maintaining between 9.2 and 9.8 tph")
  ELSE IF Contains(uri, "kiln_overheating_anomaly_high")
  THEN Label("CRITICAL_ALERT", "Severe, extensive overheating anomaly", << >>,
             "high", "DECREASE", 2, "CRITICAL ALERT: decrease by 0.2 tph")
  ELSE IF Contains(uri, "kiln_overheating_anomaly_medium")
  THEN Label("WARNING", "Medium overheating anomaly", << >>, "medium",
             "DECREASE", 2, "WARNING: reduce by 0.2 tph")
  ELSE Label("WARNING", "Unclassified thermal deviation", Basename(uri),
             "medium", "DECREASE", 2, "Unclassified: decrease by 0.2 tph")

\* get_target_json: the label of a reference image, by the first marker
\* its URI contains; adjustment values in tenths of tph
get_target_json(uri) ==
  IF Contains(uri, "kiln_operating_normal")
  THEN Label("KILN_SETPOINT_ADJUSTMENT", "Stable flame", << >>, "low",
             "MAINTAIN", 0, "Continue maintaining between 9.2 and 9.8 tph")
  ELSE IF Contains(uri, "kiln_overheating_anomaly_high")
  THEN Label("CRITICAL_ALERT", "Severe, extensive overheating anomaly", << >>,
             "high", "DECREASE", 3, "CRITICAL ALERT: decrease by 0.3 tph")
  ELSE IF Contains(uri, "kiln_overheating_anomaly_medium")
  THEN Label("WARNING", "Medium overheating anomaly", << >>, "medium",
             "DECREASE", 2, "WARNING: reduce by 0.2 tph")
  ELSE Label("WARNING", "Unclassified thermal deviation", Basename(uri),
             "medium", "DECREASE", 2, "Unclassified: decrease by 0.2 tph")

\* system_instruction: the DYNAMIC LOGIC RULES it states, rule 1 (the
\* severity levels) and rule 2 (the adjustment value by action and
\* severity, in tenths of tph)
system_instruction ==
  [severity_levels |-> {"low", "medium", "high"},
   decrease_value  |-> [low |-> 1, medium |-> 2, high |-> 3],
   maintain_value  |-> 0]

\* the entries of the prompt
UserExample(i, uri) ==
  [role |-> "user",
   parts |-> << [text |-> << "EXAMPLE", i, uri >>],
                [file_uri |-> uri, mime_type |-> "image/jpeg"] >>]

ModelExample(uri) ==
  [role |-> "model", parts |-> << [text |-> get_target_json(uri)] >>]

FinalTask(image, mimetype) ==
  [role |-> "user",
   parts |-> << [text |-> << "FINAL TASK" >>],
                [data |-> image, mime_type |-> mimetype] >>]

\* b64decode(v): the exception raised, "" for valid base64 text
b64decode(v) ==
  CASE v = "b64" -> ""
    [] v = "text" -> "binascii.Error"
    [] OTHER -> "TypeError"

\* create_kiln_prompt: the contents, or the exception raised
create_kiln_prompt(test_image_b64, test_image_mimetype, listing) ==
  LET listed   == get_gcs_image_uris(listing)
      uris     == listed.uris
      examples == [k \in 1..(2 * Len(uris)) |->
                     IF k % 2 = 1 THEN UserExample((k + 1) \div 2, uris[(k + 1) \div 2])
                     ELSE ModelExample(uris[k \div 2])]
  IN  IF listed.raised # "" THEN [raised |-> listed.raised, contents |-> << >>]
      ELSE IF b64decode(test_image_b64) # ""
      THEN [raised |-> b64decode(test_image_b64), contents |-> << >>]
      ELSE [raised |-> "",
            contents |-> Append(examples,
                                FinalTask(test_image_b64, test_image_mimetype))]

\* request objects of the image service
ImageObjects ==
  { EmptyDict,
    [k \in {"mime_type"} |-> "image/png"],
    [k \in {"image_data_b64"} |-> "b64"],
    [k \in {"image_data_b64", "mime_type"} |->
       IF k = "mime_type" THEN "image/png" ELSE "b64"],
    [k \in {"image_data_b64"} |-> "text"],
    [k \in {"image_data_b64"} |-> "null"] }

\* request objects of the recommendation service: each of the two keys
\* absent, an empty object or a non-empty object
RecommendationObjects ==
  UNION { [keys -> {"dict", "empty"}] :
            keys \in SUBSET {"current_inputs", "predicted_kpis"} }

GeminiBodies(svc) ==
  {Malformed, JsonNull, JsonArray}
    \cup { JsonObject(f) :
             f \in IF svc = ImageService THEN ImageObjects
                   ELSE RecommendationObjects }

\* what generate_content can give: text that is JSON, text that is not; or
\* it raises
GenerationKinds == {"json", "other", "raises"}

\* keys of the JSON object of an error response
ErrorKeys(svc) ==
  IF svc = RecommendationService THEN {"error", "message"} ELSE {"error"}

\* variant: the error response without the open-origin header
GeminiCaughtBare(q, exc) ==
  Respond(q, 500, {}, Payload("error", ErrorKeys(service), exc))

\* except Exception -> 500
GeminiCaught(q, exc) ==
  Respond(q, 500, {CorsOrigin}, Payload("error", ErrorKeys(service), exc))

\* module import of a service that calls the generative model
LoadGeminiService ==
  /\ service \in GeminiServices
  /\ ~started
  /\ gemini_client' = NoClient
  /\ started' = TRUE
  /\ UNCHANGED << gen_vars, service, global_endpoints, clients_made, bucket,
                  reqs >>

\* image service, flask_predict up to the call of get_gemini_client
ImageReceive(r) ==
  /\ service = ImageService
  /\ CanArrive(r)
  /\ \E method \in Methods, body \in GeminiBodies(service) :
       LET q   == [reqs[r] EXCEPT !.method = method, !.body = body]
           qr  == [q EXCEPT !.read = TRUE]
           got == get_json(body, TRUE)
       IN  reqs' = [reqs EXCEPT ![r] =
             IF method = "OPTIONS"
             THEN Respond(q, 204, {CorsOrigin, CorsHeaders, CorsMethods},
                          Payload("empty", {}, ""))
             ELSE IF Falsy(got.value) THEN GeminiCaught(qr, "ValueError")
             ELSE IF \/ got.value.json # "object"
                     \/ "image_data_b64" \notin DOMAIN got.value.fields
             THEN GeminiCaught(qr, "KeyError")
             ELSE [qr EXCEPT !.pc = "get_client"]]
  /\ UNCHANGED << gen_vars, service, started, global_endpoints, gemini_client,
                  clients_made, bucket >>

\* recommendation service, flask_route_recommendations up to the call of
\* get_gemini_client
RecommendationReceive(r) ==
  /\ service = RecommendationService
  /\ CanArrive(r)
  /\ \E method \in Methods, body \in GeminiBodies(service) :
       LET q   == [reqs[r] EXCEPT !.method = method, !.body = body]
           qr  == [q EXCEPT !.read = TRUE]
           got == get_json(body, TRUE)
           current_inputs == DictGet(got.value.fields, "current_inputs")
           predicted_kpis == DictGet(got.value.fields, "predicted_kpis")
       IN  reqs' = [reqs EXCEPT ![r] =
             IF method = "OPTIONS"
             THEN Respond(q, 204, {CorsOrigin, CorsHeaders, CorsMethods},
                          Payload("empty", {}, ""))
             ELSE IF Falsy(got.value) THEN GeminiCaught(qr, "ValueError")
             ELSE IF got.value.json # "object"
             THEN GeminiCaught(qr, "AttributeError")
             ELSE IF current_inputs # "dict" \/ predicted_kpis # "dict"
             THEN GeminiCaught(qr, "KeyError")
             ELSE [qr EXCEPT !.pc = "get_client"]]
  /\ UNCHANGED << gen_vars, service, started, global_endpoints, gemini_client,
                  clients_made, bucket >>

\* get_gemini_client: if _gemini_client is None
CheckGeminiClient(r) ==
  /\ service \in GeminiServices
  /\ reqs[r].pc = "get_client"
  /\ reqs' = [reqs EXCEPT ![r] =
                IF gemini_client = NoClient THEN [@ EXCEPT !.pc = "make_client"]
                ELSE [@ EXCEPT !.pc = "generate", !.client = gemini_client]]
  /\ UNCHANGED << gen_vars, service, started, global_endpoints, gemini_client,
                  clients_made, bucket >>

\* get_gemini_client: _gemini_client = genai.Client(...), which can raise
MakeGeminiClient(r) ==
  /\ service \in GeminiServices
  /\ reqs[r].pc = "make_client"
  /\ \E constructed \in BOOLEAN :
       IF constructed
       THEN /\ clients_made' = clients_made + 1
            /\ gemini_client' = clients_made + 1
            /\ reqs' = [reqs EXCEPT ![r] =
                          [@ EXCEPT !.pc = "generate", !.made = TRUE,
                                    !.client = clients_made + 1]]
       ELSE /\ reqs' = [reqs EXCEPT ![r] = GeminiCaught(@, "ClientError")]
            /\ UNCHANGED << gemini_client, clients_made >>
  /\ UNCHANGED << gen_vars, service, started, global_endpoints, bucket >>

\* image service: create_kiln_prompt, generate_content and the response
ImageGenerate(r) ==
  /\ service = ImageService
  /\ reqs[r].pc = "generate"
  /\ \E listing \in Orderings(bucket), generated \in GenerationKinds :
       LET fields == reqs[r].body.fields
           image  == fields["image_data_b64"]
           mime   == IF "mime_type" \in DOMAIN fields THEN fields["mime_type"]
                     ELSE "image/jpeg"
           built  == create_kiln_prompt(image, mime, listing)
           listed == [reqs[r] EXCEPT
                        !.ext = << << "bucket.list_blobs", "listed" >> >>]
           called == [listed EXCEPT
                        !.ext = << << "bucket.list_blobs", "listed" >>,
                                   << "models.generate_content", generated >> >>,
                        !.prompt = built.contents]
       IN  reqs' = [reqs EXCEPT ![r] =
             IF built.raised # "" THEN GeminiCaught(listed, built.raised)
             ELSE IF generated = "raises" THEN GeminiCaught(called, "APIError")
             ELSE Respond(called, 200, {CorsOrigin},
                          Payload("text", {}, generated))]
  /\ UNCHANGED << gen_vars, service, started, global_endpoints, gemini_client,
                  clients_made, bucket >>

\* variant: the model asked a second time when its first answer is unusable
RecommendationGenerateRetrying(r) ==
  /\ service = RecommendationService
  /\ reqs[r].pc = "generate"
  /\ \E generated \in GenerationKinds, again \in GenerationKinds :
       LET once  == [reqs[r] EXCEPT
                       !.ext = << << "models.generate_content", generated >> >>]
           twice == [reqs[r] EXCEPT
                       !.ext = << << "models.generate_content", generated >>,
                                  << "models.generate_content", again >> >>]
       IN  reqs' = [reqs EXCEPT ![r] =
             CASE generated = "json" ->
                    Respond(once, 200, {CorsOrigin},
                            Payload("recommendations", {}, generated))
               [] again = "json" ->
                    Respond(twice, 200, {CorsOrigin},
                            Payload("recommendations", {}, again))
               [] OTHER -> GeminiCaught(twice, "APIError")]
  /\ UNCHANGED << gen_vars, service, started, global_endpoints, gemini_client,
                  clients_made, bucket >>

\* recommendation service: generate_content, json.loads and the response
RecommendationGenerate(r) ==
  /\ service = RecommendationService
  /\ reqs[r].pc = "generate"
  /\ \E generated \in GenerationKinds :
       LET called == [reqs[r] EXCEPT
                        !.ext = << << "models.generate_content", generated >> >>]
       IN  reqs' = [reqs EXCEPT ![r] =
             CASE generated = "raises" -> GeminiCaught(called, "APIError")
               [] generated = "other" -> GeminiCaught(called, "JSONDecodeError")
               [] OTHER -> Respond(called, 200, {CorsOrigin},
                                   Payload("recommendations", {}, generated))]
  /\ UNCHANGED << gen_vars, service, started, global_endpoints, gemini_client,
                  clients_made, bucket >>

\* ---- the services as a state machine -------------------------------
SvcInit ==
  /\ NUM_POINTS = MinPoints
  /\ seed = SEED
  /\ clock = 0
  /\ runs = 1
  /\ pc = FirstLine
  /\ rng = 0
  /\ data = EmptyFrame
  /\ num_problems = 0
  /\ high_lsf_indices = << >>
  /\ mill_ineff_indices = << >>
  /\ kiln_instability_indices = << >>
  /\ csv = EmptyFrame
  /\ prev_csv = EmptyFrame
  /\ drawlog = << >>
  /\ base = EmptyFrame
  /\ service \in Services
  /\ started = FALSE
  /\ global_endpoints = {}
  /\ gemini_client = NoClient
  /\ clients_made = 0
  /\ bucket \in IF service = ImageService THEN Buckets ELSE {{}}
  /\ reqs = [r \in Requests |-> NewRequest]

SvcNext ==
  \/ InitializeEndpoints
  \/ LoadGeminiService
  \/ \E r \in Requests : ThermalPredict(r)
  \/ \E r \in Requests : FreeLimePredict(r)
  \/ \E r \in Requests : ImageReceive(r)
  \/ \E r \in Requests : RecommendationReceive(r)
  \/ \E r \in Requests : CheckGeminiClient(r)
  \/ \E r \in Requests : MakeGeminiClient(r)
  \/ \E r \in Requests : ImageGenerate(r)
  \/ \E r \in Requests : RecommendationGenerate(r)

SvcSpec == SvcInit /\ [][SvcNext]_vars

\* ===================================================================
\* Properties
\* ===================================================================
Finished == pc = DoneLine

\* all three scenarios applied, frame not yet rounded
Injected == pc = 86

InHighLsf(i) == i \in Range(high_lsf_indices)
InMillIneff(i) == i \in Range(mill_ineff_indices)
InKilnInstability(i) == i \in Range(kiln_instability_indices)
Perturbed(i) == InHighLsf(i) \/ InMillIneff(i) \/ InKilnInstability(i)

\* the values drawn by the statement at `line`
DrawnAt(line) == (CHOOSE e \in Range(drawlog) : e.line = line).vals

\* the output name of a column, and the column of the written file
OutName(c) == bq_friendly_columns[CHOOSE p \in DOMAIN column_order : column_order[p] = c]
Out(c) == csv.val[OutName(c)]
Written == csv # EmptyFrame
OutRows == DOMAIN csv.val["timestamp"]

Abs(x) == IF x < 0 THEN -x ELSE x
Distinct(q) == \A a, b \in DOMAIN q : a # b => q[a] # q[b]

\* C1: in every row of the written table the four blend percentages sum to
\* 100 within 0.01, anomaly rows included.
C1_BlendSumsTo100 ==
  Written =>
    \A i \in OutRows :
      Abs(Out(cLimestone)[i] + Out(cClay)[i] + Out(cIronOre)[i]
          + Out(cBauxite)[i] - 100 * Scale) <= 100

\* the same sum on the rows outside the High-LSF subset (holds)
BlendSumsTo100OutsideHighLsf ==
  Finished =>
    \A i \in OutRows :
      ~InHighLsf(i) =>
        Abs(Out(cLimestone)[i] + Out(cClay)[i] + Out(cIronOre)[i]
            + Out(cBauxite)[i] - 100 * Scale) <= 100

\* C2: the three anomaly subsets are pairwise disjoint, so the number of
\* distinct perturbed rows is three times the subset size.
AllChosenLines == {81, 82, 83, 86, 97, 108, 111, 113}
AllChosen == pc \in AllChosenLines

C2_SubsetsDisjoint ==
  AllChosen =>
    /\ Range(high_lsf_indices) \cap Range(mill_ineff_indices) = {}
    /\ Range(high_lsf_indices) \cap Range(kiln_instability_indices) = {}
    /\ Range(mill_ineff_indices) \cap Range(kiln_instability_indices) = {}
    /\ Cardinality({i \in Rows : Perturbed(i)}) = 3 * SubsetSize

\* C3: each anomaly subset, once drawn, has exactly floor(0.15 N / 3)
\* = floor(N / 20) indices, all distinct and all in 0..N-1.
WellFormedSubset(idx) ==
  /\ Len(idx) = NUM_POINTS \div 20
  /\ Distinct(idx)
  /\ Range(idx) \subseteq 0..(NUM_POINTS - 1)

C3_SubsetSizes ==
  /\ pc \in {69, 70, 71, 74} \cup {75, 76, 77, 80} \cup AllChosenLines =>
       WellFormedSubset(high_lsf_indices)
  /\ pc \in {75, 76, 77, 80} \cup AllChosenLines =>
       WellFormedSubset(mill_ineff_indices)
  /\ pc \in AllChosenLines => WellFormedSubset(kiln_instability_indices)

C3_Witness ==
  /\ Finished
  /\ Len(high_lsf_indices) = 2
  /\ Len(mill_ineff_indices) = 2
  /\ Len(kiln_instability_indices) = 2

\* C4: after all three scenarios, every row of each subset satisfies that
\* scenario's overridden formula exactly (before rounding).
Between(x, lo, hi) == lo <= x /\ x <= hi

HighLsfRowOk(i) ==
  /\ Col(cLsf)[i] = LsfFormula(Col(cLimestone)[i],
                               DrawnAt(70)[PosOf(high_lsf_indices, i)])
  /\ Between(Col(cFreeLime)[i] - HighLsfFreeLime(Col(cLsf)[i], 0),
             10000, 15000)

MillIneffRowOk(i) ==
  /\ Between(Col(cPower)[i] - base.val[cPower][i], 200 * Scale, 400 * Scale)
  /\ Between(base.val[cFineness][i] - Col(cFineness)[i], 300 * Scale, 500 * Scale)
  /\ Col(cEnergy)[i] = EnergyFormula(Col(cPower)[i], Col(cClinker)[i],
                                     Col(cGypsum)[i])

KilnInstabilityRowOk(i) ==
  /\ Between(Col(cCurrent)[i] - base.val[cCurrent][i], 30 * Scale, 60 * Scale)
  /\ Between(Col(cFreeLime)[i] - base.val[cFreeLime][i], 5000, 8000)
  /\ Between(Col(cThermal)[i] - base.val[cThermal][i], 50 * Scale, 80 * Scale)

C4_ScenarioFormulas ==
  Injected =>
    \A i \in Rows :
      /\ InHighLsf(i) => HighLsfRowOk(i)
      /\ InMillIneff(i) => MillIneffRowOk(i)
      /\ InKilnInstability(i) => KilnInstabilityRowOk(i)

\* the same on the rows that are in exactly one subset (holds)
InOneSubsetOnly(i) ==
  /\ Perturbed(i)
  /\ ~(InHighLsf(i) /\ InMillIneff(i))
  /\ ~(InHighLsf(i) /\ InKilnInstability(i))
  /\ ~(InMillIneff(i) /\ InKilnInstability(i))

ScenarioFormulasWithoutOverlap ==
  Injected =>
    \A i \in Rows :
      InOneSubsetOnly(i) =>
        /\ InHighLsf(i) => HighLsfRowOk(i)
        /\ InMillIneff(i) => MillIneffRowOk(i)
        /\ InKilnInstability(i) => KilnInstabilityRowOk(i)

\* C5: anomaly injection leaves the rows outside the three subsets
\* unchanged: every KPI still equals its baseline formula with its own
\* noise term on the row's independent variables, and no independent
\* variable of the row was modified.
InjectionLines == {68, 69, 70, 71, 74, 75, 76, 77, 80, 81, 82, 83, 86}

BaselineRow(i) ==
  /\ \A l \in SampledLines : Col(Sampled(l).col)[i] = DrawnAt(l)[i + 1]
  /\ Col(cBauxite)[i] = BauxiteRemainder(Col(cLimestone)[i], Col(cClay)[i],
                                         Col(cIronOre)[i])
  /\ \A l \in KpiLines : Col(KpiCol(l))[i] = KpiValue(l, data, i, DrawnAt(l)[i + 1])
  /\ Col(cEnergy)[i] = EnergyFormula(Col(cPower)[i], Col(cClinker)[i],
                                     Col(cGypsum)[i])
  /\ \A c \in DOMAIN data.val : Col(c)[i] = base.val[c][i]

C5_UnperturbedRowsUnchanged ==
  pc \in InjectionLines => \A i \in Rows : ~Perturbed(i) => BaselineRow(i)

C5_Witness ==
  /\ Injected
  /\ \E i \in Rows : InHighLsf(i) /\ ~BaselineRow(i)
  /\ \E i \in Rows : InMillIneff(i) /\ ~BaselineRow(i)
  /\ \E i \in Rows : InKilnInstability(i) /\ ~BaselineRow(i)
  /\ \E i \in Rows : ~Perturbed(i) /\ BaselineRow(i)

\* C6: in every output row the electrical energy equals power draw over
\* (clinker + gypsum) within 0.01, anomaly rows included.
Centi(x) == x \div 100

EnergyRatioHolds(i) ==
  LET e == Centi(Out(cEnergy)[i])
      w == Centi(Out(cPower)[i])
      m == Centi(Out(cClinker)[i]) + Centi(Out(cGypsum)[i])
  IN  Abs(e * m - 100 * w) <= m

C6_EnergyRatio == Written => \A i \in OutRows : EnergyRatioHolds(i)

C6_Witness ==
  /\ Finished
  /\ \E i \in Rows :
       /\ InMillIneff(i)
       /\ Out(cPower)[i] - base.val[cPower][i] >= 199 * Scale
       /\ EnergyRatioHolds(i)

\* C7: after a scenario is applied to a row, every KPI that depends on a
\* perturbed variable or on an overwritten KPI is consistent with the
\* row's current values: mill power with free lime, fineness and
\* electrical energy with mill power.
PowerFollowsFreeLime(i) ==
  Col(cPower)[i] - (IF InMillIneff(i)
                    THEN DrawnAt(75)[PosOf(mill_ineff_indices, i)] ELSE 0)
    = PowerFormula(Col(cClinker)[i], Col(cRecirc)[i], Col(cFreeLime)[i],
                   DrawnAt(59)[i + 1])

FinenessFollowsPower(i) ==
  Col(cFineness)[i] + (IF InMillIneff(i)
                       THEN DrawnAt(76)[PosOf(mill_ineff_indices, i)] ELSE 0)
    = FinenessFormula(Col(cClinker)[i], Col(cPower)[i], DrawnAt(60)[i + 1])

EnergyFollowsPower(i) ==
  Col(cEnergy)[i] = EnergyFormula(Col(cPower)[i], Col(cClinker)[i],
                                  Col(cGypsum)[i])

C7_DependentsConsistent ==
  Injected =>
    \A i \in Rows :
      Perturbed(i) =>
        /\ PowerFollowsFreeLime(i)
        /\ FinenessFollowsPower(i)
        /\ EnergyFollowsPower(i)

\* C8: the written table has exactly N rows and exactly the 21 canonical
\* columns, in the canonical order beginning with timestamp; no step adds,
\* drops or duplicates a row or a column (and none raises).
C8_TableShape ==
  /\ pc # RaisedLine
  /\ pc \in {64} \cup InjectionLines \cup {97} =>
       /\ Len(data.cols) = 21
       /\ Distinct(data.cols)
       /\ DOMAIN data.val = Range(data.cols)
       /\ \A c \in DOMAIN data.val : DOMAIN data.val[c] = 0..(NUM_POINTS - 1)
  /\ Written =>
       /\ Len(csv.cols) = 21
       /\ csv.cols[1] = "timestamp"
       /\ Distinct(csv.cols)
       /\ csv.cols = bq_friendly_columns
       /\ DOMAIN csv.val = Range(csv.cols)
       /\ \A c \in DOMAIN csv.val : DOMAIN csv.val[c] = 0..(NUM_POINTS - 1)

C8_Witness ==
  /\ Finished
  /\ Written
  /\ Cardinality({i \in Rows : Perturbed(i)}) >= 5
  /\ Len(csv.cols) = 21

\* C9: two runs with the same seed and the same N write identical values in
\* every column other than timestamp.
C9_Reproducible ==
  (Finished /\ prev_csv # EmptyFrame) =>
    /\ csv.cols = prev_csv.cols
    /\ \A c \in DOMAIN csv.val : c # "timestamp" => csv.val[c] = prev_csv.val[c]

C9_Witness ==
  /\ Finished
  /\ prev_csv # EmptyFrame
  /\ csv.val["timestamp"] # prev_csv.val["timestamp"]
  /\ csv.val["clinker_free_lime_pct"] = prev_csv.val["clinker_free_lime_pct"]
  /\ \E i \in Rows : Perturbed(i)

\* C10 (as stated): random state is consumed as main sampling (independent
\* variables, then KPI noise), then the three subset selections, then the
\* magnitude draws; no magnitude draw precedes a subset selection.
KindRank(kind) ==
  CASE kind = "sample" -> 1
    [] kind = "noise" -> 2
    [] kind = "choice" -> 3
    [] kind = "magnitude" -> 4

C10_SelectionsBeforeMagnitudes ==
  \A p, q \in DOMAIN drawlog :
    p < q => KindRank(drawlog[p].kind) <= KindRank(drawlog[q].kind)

\* C10 (amended): main sampling (independent variables, then KPI noise),
\* then scenario by scenario: the subset selection of a scenario, then that
\* scenario's magnitude draws, then the next scenario's selection.
ScenarioOf(line) ==
  IF line < 68 THEN 0
  ELSE IF line \in 68..71 THEN 1
  ELSE IF line \in 74..77 THEN 2
  ELSE 3

DrawRank(e) == 10 * ScenarioOf(e.line) + KindRank(e.kind)

C10_DrawOrder ==
  /\ \A p, q \in DOMAIN drawlog :
       p < q => DrawRank(drawlog[p]) <= DrawRank(drawlog[q])
  /\ Finished =>
       /\ Cardinality({p \in DOMAIN drawlog : drawlog[p].kind = "sample"}) = 12
       /\ Cardinality({p \in DOMAIN drawlog : drawlog[p].kind = "noise"}) = 6
       /\ \A sc \in 1..3 :
            Cardinality({p \in DOMAIN drawlog :
                           /\ drawlog[p].kind = "choice"
                           /\ ScenarioOf(drawlog[p].line) = sc}) = 1
       /\ Cardinality({p \in DOMAIN drawlog : drawlog[p].kind = "magnitude"}) = 8

C10_Witness ==
  /\ Finished
  /\ Len(drawlog) = 29
  /\ \E p, q \in DOMAIN drawlog :
       /\ p < q
       /\ drawlog[p].kind = "magnitude"
       /\ drawlog[q].kind = "choice"
       /\ Len(drawlog[p].vals) = 2

\* the frame has its timestamp column
HasTimestamps == pc \notin {34, 35, RaisedLine}

\* C11: the timestamps are spaced by exactly the sampling interval, whatever
\* time the generation of the sequence takes.
C11_FixedSpacing ==
  HasTimestamps =>
    \A i \in 0..(NUM_POINTS - 2) :
      Col("timestamp")[i] - Col("timestamp")[i + 1]
        = INTERVAL_MINUTES * TicksPerMinute

\* the timestamps are strictly decreasing, spaced by at most the interval (holds)
TimestampsDecreasing ==
  HasTimestamps =>
    \A i \in 0..(NUM_POINTS - 2) :
      /\ Col("timestamp")[i] > Col("timestamp")[i + 1]
      /\ Col("timestamp")[i] - Col("timestamp")[i + 1]
           <= INTERVAL_MINUTES * TicksPerMinute

InHighLsfAndKiln(i) == InHighLsf(i) /\ InKilnInstability(i)

Digits == {"0", "1", "2", "3", "4", "5", "6", "7", "8", "9"}
LowerCase == {"a", "b", "c", "d", "e", "f", "g", "h", "i", "j", "k", "l", "m",
              "n", "o", "p", "q", "r", "s", "t", "u", "v", "w", "x", "y", "z"}
UpperCase == {"A", "B", "C", "D", "E", "F", "G", "H", "I", "J", "K", "L", "M",
              "N", "O", "P", "Q", "R", "S", "T", "U", "V", "W", "X", "Y", "Z"}
IsAlnum(ch) == ch \in Digits \cup LowerCase \cup UpperCase

\* str.lower() on one character
LowerPairs ==
  { << "A", "a" >>, << "B", "b" >>, << "C", "c" >>, << "D", "d" >>,
    << "E", "e" >>, << "F", "f" >>, << "G", "g" >>, << "H", "h" >>,
    << "I", "i" >>, << "J", "j" >>, << "K", "k" >>, << "L", "l" >>,
    << "M", "m" >>, << "N", "n" >>, << "O", "o" >>, << "P", "p" >>,
    << "Q", "q" >>, << "R", "r" >>, << "S", "s" >>, << "T", "t" >>,
    << "U", "u" >>, << "V", "v" >>, << "W", "w" >>, << "X", "x" >>,
    << "Y", "y" >>, << "Z", "z" >> }

LowerChar(ch) ==
  IF ch \in UpperCase THEN (CHOOSE pr \in LowerPairs : pr[1] = ch)[2] ELSE ch

LowerName(chars) == [k \in DOMAIN chars |-> LowerChar(chars[k])]

\* the naming convention as the specification words it: percent -> pct, slash -> per set off by
\* underscores, any other non-alphanumeric character -> underscore
SanitizeChar(ch) ==
  CASE ch = "%" -> << "p", "c", "t" >>
    [] ch = "/" -> << "_", "p", "e", "r", "_" >>
    [] IsAlnum(ch) -> << ch >>
    [] OTHER -> << "_" >>

RECURSIVE Sanitize(_)
Sanitize(chars) ==
  IF chars = << >> THEN << >>
  ELSE SanitizeChar(Head(chars)) \o Sanitize(Tail(chars))

\* the same convention with a slash written as a single underscore
RECURSIVE SanitizeSlashAsUnderscore(_)
SanitizeSlashAsUnderscore(chars) ==
  IF chars = << >> THEN << >>
  ELSE (IF Head(chars) = "/" THEN << "_" >> ELSE SanitizeChar(Head(chars)))
       \o SanitizeSlashAsUnderscore(Tail(chars))

OutputNameAt(p) == CharsOf(csv.cols[p])
OriginalNameAt(p) == CharsOf(column_order[p])

\* C13 (as stated): every output column name is the original name rewritten
\* by the one rule (percent -> pct, slash -> _per_, other non-alphanumeric
\* -> underscore, alphanumerics unchanged).
C13_UniformRenameRule ==
  Written =>
    \A p \in DOMAIN csv.cols : OutputNameAt(p) = Sanitize(OriginalNameAt(p))

LowerCasedNames == {cCurrent, cThermal, cNox, cEnergy}

\* C13 (amended): the output names are the hand-written list matched by
\* position; it follows the rule exactly for 16 names, follows it up to the
\* lower-casing of one letter for four names (Amp, Kcal, Nm3, kWh) and writes
\* the slash of kiln_burner_air_flow_m3/hr as a single underscore.
C13_RenameAsWritten ==
  Written =>
    /\ Len(csv.cols) = Len(column_order)
    /\ \A p \in DOMAIN csv.cols :
         LET orig == column_order[p]
             rule == Sanitize(OriginalNameAt(p))
             out  == OutputNameAt(p)
         IN  /\ out # << >>
             /\ orig = cAirFlow => out = SanitizeSlashAsUnderscore(OriginalNameAt(p))
             /\ orig \in LowerCasedNames =>
                  /\ out # rule
                  /\ out = LowerName(rule)
             /\ orig \notin LowerCasedNames \cup {cAirFlow} => out = rule

C13_Witness ==
  /\ Written
  /\ \E p \in DOMAIN csv.cols :
       /\ column_order[p] = cThermal
       /\ OutputNameAt(p) # OriginalNameAt(p)
       /\ OutputNameAt(p) # Sanitize(OriginalNameAt(p))

\* ---- the HTTP services ---------------------------------------------
Answered(r) == reqs[r].pc = "done"
Post(r) == Answered(r) /\ reqs[r].method = "POST"
Preflight(r) == Answered(r) /\ reqs[r].method = "OPTIONS"

\* the keys the handler of a service requires in the request object
RequiredKeys(svc) ==
  CASE svc = ImageService -> {"image_data_b64"}
    [] svc = RecommendationService -> {"current_inputs", "predicted_kpis"}
    [] OTHER -> Range(MODEL_FEATURES(svc))

NoJson(body) == body.json \in {"malformed", "null"}
LacksKey(svc, body) ==
  body.json = "object" /\ ~(RequiredKeys(svc) \subseteq DOMAIN body.fields)

EndpointReady == TARGET_KPI(service) \in global_endpoints

ErrorAnswer(r, status) ==
  /\ reqs[r].status = status
  /\ reqs[r].resp.kind = "error"
  /\ reqs[r].resp.keys = {"error"}

\* C14: in each service a POST without a JSON body, with invalid JSON, or
\* lacking a required field or feature is answered 400 with {error: message}
\* (for the regression services: once the endpoint is initialized).
C14_ValidationErrorsAre400 ==
  \A r \in Requests :
    /\ Post(r)
    /\ NoJson(reqs[r].body) \/ LacksKey(service, reqs[r].body)
    /\ service \in RegressionServices => EndpointReady
    => ErrorAnswer(r, 400)

\* what does hold: the thermal service answers a null body and, with the
\* endpoint initialized, missing features with 400
ThermalValidationErrorsAre400 ==
  \A r \in Requests :
    /\ Post(r)
    /\ service = ThermalService
    /\ \/ reqs[r].body.json = "null"
       \/ LacksKey(service, reqs[r].body) /\ EndpointReady
    => ErrorAnswer(r, 400)

\* C15: in both regression services a POST with a JSON body that arrives
\* while the target KPI's endpoint is not initialized is answered 503 with
\* {error: message}.
C15_UninitializedEndpointIs503 ==
  \A r \in Requests :
    /\ Post(r)
    /\ service \in RegressionServices
    /\ ~NoJson(reqs[r].body)
    /\ ~EndpointReady
    => ErrorAnswer(r, 503)

\* what does hold: the thermal service does so
ThermalUninitializedEndpointIs503 ==
  \A r \in Requests :
    /\ Post(r)
    /\ service = ThermalService
    /\ ~NoJson(reqs[r].body)
    /\ ~EndpointReady
    => ErrorAnswer(r, 503)

\* number of invocations of the external model or regression endpoint
ModelCalls(q) ==
  Cardinality({k \in DOMAIN q.ext :
                 q.ext[k][1] \in {"endpoint.predict", "models.generate_content"}})

\* the request object has every required key with a usable value
PassesValidation(svc, body) ==
  /\ body.json = "object"
  /\ RequiredKeys(svc) \subseteq DOMAIN body.fields
  /\ \A k \in RequiredKeys(svc) :
       body.fields[k] = CASE svc = ImageService -> "b64"
                          [] svc = RecommendationService -> "dict"
                          [] OTHER -> "number"

HasReferenceImages ==
  \E name \in bucket : name # << KILN_GCS_PREFIX >> /\ IsImageName(name)

\* the external side is available to request r: the endpoint object exists,
\* or the client was obtained and, for the image service, examples exist
ExternalReady(r) ==
  IF service \in RegressionServices THEN EndpointReady
  ELSE /\ reqs[r].client # NoClient
       /\ service = ImageService => HasReferenceImages

\* C16: one request invokes the external model or endpoint at most once;
\* exactly once when it is a POST that passes validation with the external
\* side available; not at all when it fails validation, when the endpoint
\* is not initialized, when there are no reference images, and on preflight.
C16_ExternalCalledOnce ==
  \A r \in Requests :
    /\ ModelCalls(reqs[r]) <= 1
    /\ Preflight(r) => ModelCalls(reqs[r]) = 0
    /\ Post(r) /\ ~PassesValidation(service, reqs[r].body)
         => ModelCalls(reqs[r]) = 0
    /\ Post(r) /\ service \in RegressionServices /\ ~EndpointReady
         => ModelCalls(reqs[r]) = 0
    /\ Post(r) /\ service = ImageService /\ ~HasReferenceImages
         => ModelCalls(reqs[r]) = 0
    /\ Post(r) /\ PassesValidation(service, reqs[r].body) /\ ExternalReady(r)
         => ModelCalls(reqs[r]) = 1

\* a failed external answer, and the model was asked once
C16_Witness ==
  \E r \in Requests :
    /\ Post(r)
    /\ PassesValidation(service, reqs[r].body)
    /\ ModelCalls(reqs[r]) = 1
    /\ reqs[r].status = 500

\* C17: in every service the preflight method is answered with a success
\* status and the three open-origin headers, without the body being read, a
\* client made or an external service called; and every other response of
\* the main handler carries Access-Control-Allow-Origin: *.
C17_PreflightAndCors ==
  \A r \in Requests :
    /\ Preflight(r) =>
         /\ reqs[r].status \in {200, 204}
         /\ {CorsOrigin, CorsHeaders, CorsMethods} \subseteq reqs[r].headers
         /\ ~reqs[r].read
         /\ ~reqs[r].made
         /\ reqs[r].client = NoClient
         /\ reqs[r].ext = << >>
    /\ Post(r) => CorsOrigin \in reqs[r].headers

C17_Witness ==
  \E r1, r2 \in Requests :
    /\ Preflight(r1)
    /\ reqs[r1].status = 204
    /\ Post(r2)
    /\ reqs[r2].status = 500
    /\ CorsOrigin \in reqs[r2].headers

\* the few-shot examples of the prompt built for a request
Examples(q) == 1..((Len(q.prompt) - 1) \div 2)
ExampleUri(q, i) == q.prompt[2 * i - 1].parts[2].file_uri
ExampleLabel(q, i) == q.prompt[2 * i].parts[1].text

LabelShape(lab) ==
  << lab.recommendation_type, lab.severity_level, lab.adjustments[1].action,
     lab.adjustments[1].value >>

Unclassified(lab) == lab.visual_finding.text = "Unclassified thermal deviation"

\* C18: every reference URI gets exactly one label, by the first marker it
\* contains in the order normal, high, medium, and the default label when it
\* contains none; the same URI always gets the same label.
C18_FirstMatchingMarker ==
  \A r \in Requests : \A i \in Examples(reqs[r]) :
    LET uri    == ExampleUri(reqs[r], i)
        lab    == ExampleLabel(reqs[r], i)
        normal == Contains(uri, "kiln_operating_normal")
        high   == Contains(uri, "kiln_overheating_anomaly_high")
        medium == Contains(uri, "kiln_overheating_anomaly_medium")
    IN  /\ Len(lab.adjustments) = 1
        /\ lab.adjustments[1].variable = FUEL_RATE_VARIABLE
        /\ normal =>
             /\ LabelShape(lab) = << "KILN_SETPOINT_ADJUSTMENT", "low", "MAINTAIN", 0 >>
             /\ ~Unclassified(lab)
        /\ ~normal /\ high =>
             /\ LabelShape(lab) = << "CRITICAL_ALERT", "high", "DECREASE", 3 >>
             /\ ~Unclassified(lab)
        /\ ~normal /\ ~high /\ medium =>
             /\ LabelShape(lab) = << "WARNING", "medium", "DECREASE", 2 >>
             /\ ~Unclassified(lab)
        /\ ~normal /\ ~high /\ ~medium =>
             /\ LabelShape(lab) = << "WARNING", "medium", "DECREASE", 2 >>
             /\ Unclassified(lab)
             /\ lab.visual_finding.name = Basename(uri)
        /\ \A r2 \in Requests : \A j \in Examples(reqs[r2]) :
             ExampleUri(reqs[r2], j) = uri => ExampleLabel(reqs[r2], j) = lab

\* a URI with the high marker before the normal marker, labelled normal
C18_Witness ==
  \E r \in Requests : \E i \in Examples(reqs[r]) :
    /\ Contains(ExampleUri(reqs[r], i), "kiln_operating_normal")
    /\ Contains(ExampleUri(reqs[r], i), "kiln_overheating_anomaly_high")
    /\ ExampleLabel(reqs[r], i).severity_level = "low"

\* the URIs of the reference images in the bucket
ReferenceUris ==
  { Uri(name) : name \in {n \in bucket : n # << KILN_GCS_PREFIX >> /\ IsImageName(n)} }

\* the request got as far as create_kiln_prompt with a decodable image
PromptAsked(r) ==
  /\ Post(r)
  /\ PassesValidation(service, reqs[r].body)
  /\ reqs[r].client # NoClient

\* C19: with k >= 1 reference images the prompt has 2k+1 entries: for the
\* i-th URI in ascending order a user entry (EXAMPLE i, the URI) followed by
\* a model entry with that URI's label, then one user entry with the live
\* image; roles alternate. With k = 0 an error is raised and there is no
\* prompt.
C19_PromptShape ==
  \A r \in Requests :
    LET q == reqs[r]
        k == Cardinality(ReferenceUris)
    IN  /\ q.prompt # << >> =>
             /\ k >= 1
             /\ Len(q.prompt) = 2 * k + 1
             /\ \A n \in DOMAIN q.prompt :
                  q.prompt[n].role = IF n % 2 = 1 THEN "user" ELSE "model"
             /\ {ExampleUri(q, i) : i \in 1..k} = ReferenceUris
             /\ \A i \in 1..k :
                  /\ Len(q.prompt[2 * i - 1].parts) = 2
                  /\ q.prompt[2 * i - 1].parts[1].text
                       = << "EXAMPLE", i, ExampleUri(q, i) >>
                  /\ Len(q.prompt[2 * i].parts) = 1
                  /\ ExampleLabel(q, i) = get_target_json(ExampleUri(q, i))
                  /\ i < k => UriRank(ExampleUri(q, i)) < UriRank(ExampleUri(q, i + 1))
             /\ q.prompt[2 * k + 1].parts[1].text = << "FINAL TASK" >>
             /\ q.prompt[2 * k + 1].parts[2].data = q.body.fields["image_data_b64"]
        /\ PromptAsked(r) /\ service = ImageService /\ k >= 1 => q.prompt # << >>
        /\ PromptAsked(r) /\ service = ImageService /\ k = 0 =>
             /\ q.prompt = << >>
             /\ q.status = 500
             /\ q.resp.value = "ValueError"
             /\ ModelCalls(q) = 0

\* two reference images: five entries
C19_Witness ==
  \E r \in Requests :
    /\ Len(reqs[r].prompt) = 5
    /\ reqs[r].prompt[4].role = "model"
    /\ reqs[r].prompt[5].role = "user"

\* reachable: no reference image, and the request fails with the ValueError
NoReferenceImagesRaises ==
  \E r \in Requests :
    /\ PromptAsked(r)
    /\ service = ImageService
    /\ ReferenceUris = {}
    /\ bucket # {}
    /\ reqs[r].resp.value = "ValueError"

\* the thermal handler's view of a request object
ThermalMissing(body) ==
  {f \in Range(ThermalFeatures) : DictGet(body.fields, f) = "null"}
ThermalUnconvertible(body) ==
  {f \in Range(ThermalFeatures) : DictGet(body.fields, f) \in {"text", "list"}}

\* C20: the thermal service checks, in this order, the JSON body, the
\* endpoint, the presence of the six features, the convertibility of their
\* values, and then calls the endpoint; the first failing check decides:
\* missing features with an uninitialized endpoint give 503, and a null or
\* malformed prediction after all checks gives 500.
C20_ThermalCheckOrder ==
  \A r \in Requests :
    Post(r) /\ service = ThermalService =>
      LET q == reqs[r]
          b == q.body
      IN  /\ b.json = "null" => ErrorAnswer(r, 400) /\ q.ext = << >>
          /\ b.json = "malformed" => ErrorAnswer(r, 500) /\ q.ext = << >>
          /\ ~NoJson(b) /\ ~EndpointReady => ErrorAnswer(r, 503) /\ q.ext = << >>
          /\ b.json = "object" /\ EndpointReady /\ ThermalMissing(b) # {} =>
               /\ ErrorAnswer(r, 400)
               /\ q.resp.value = "missing features"
               /\ q.ext = << >>
          /\ /\ b.json = "object"
             /\ EndpointReady
             /\ ThermalMissing(b) = {}
             /\ ThermalUnconvertible(b) # {}
             => /\ q.status \in {400, 500}
                /\ q.resp.value \in {"ValueError", "TypeError"}
                /\ q.ext = << >>
          /\ PassesValidation(service, b) /\ EndpointReady =>
               /\ Len(q.ext) = 1
               /\ q.ext[1][1] = "endpoint.predict"
               /\ IF q.ext[1][2] \in {"number", "dict_number"}
                  THEN q.status = 200 /\ q.resp.kind = "prediction"
                                      /\ q.resp.value = "number"
                  ELSE ErrorAnswer(r, 500)

\* missing features while the endpoint is uninitialized: 503
C20_Witness ==
  \E r \in Requests :
    /\ Post(r)
    /\ service = ThermalService
    /\ reqs[r].body.json = "object"
    /\ ThermalMissing(reqs[r].body) # {}
    /\ ~EndpointReady
    /\ reqs[r].status = 503

\* reachable: a null prediction after all checks, answered 500
NullPredictionIs500 ==
  \E r \in Requests :
    /\ Post(r)
    /\ service = ThermalService
    /\ reqs[r].ext = << << "endpoint.predict", "null" >> >>
    /\ reqs[r].status = 500

\* the requests that have obtained a client from get_gemini_client
Holders == {r \in Requests : reqs[r].client # NoClient}

\* C21: under any interleaving of the requests the client is constructed at
\* most once per process, and every request that obtains a client obtains
\* the same instance.
C21_ClientSingleton ==
  /\ clients_made <= 1
  /\ \A r1, r2 \in Holders : reqs[r1].client = reqs[r2].client

\* what does hold: a client once set is never reset to None, and a request
\* that finds it set takes the instance that is current at that moment
ClientNeverReset ==
  [][gemini_client # NoClient => gemini_client' # NoClient]_vars

\* the label obeys rules 1 and 2 of the system instruction
ObeysRules(lab) ==
  /\ lab.severity_level \in system_instruction.severity_levels
  /\ \A k \in DOMAIN lab.adjustments :
       LET adj == lab.adjustments[k]
       IN  /\ adj.action = "MAINTAIN" => adj.value = system_instruction.maintain_value
           /\ adj.action = "DECREASE" =>
                adj.value = system_instruction.decrease_value[lab.severity_level]

\* C22: every few-shot label sent in a prompt obeys the DYNAMIC LOGIC RULES of
\* the system instruction sent with it: the severity is low, medium or high,
\* MAINTAIN has value 0.0, DECREASE has value 0.1, 0.2 or 0.3 by severity,
\* and the label has exactly one adjustment, on fuel_feed_rate_tph.
C22_LabelsObeyRules ==
  \A r \in Requests : \A i \in Examples(reqs[r]) :
    LET lab == ExampleLabel(reqs[r], i)
    IN  /\ ObeysRules(lab)
        /\ Len(lab.adjustments) = 1
        /\ lab.adjustments[1].variable = "fuel_feed_rate_tph"
        /\ lab.adjustments[1].action \in {"MAINTAIN", "DECREASE"}

\* one prompt holding a MAINTAIN label and a high-severity DECREASE label
C22_Witness ==
  \E r \in Requests : \E i, j \in Examples(reqs[r]) :
    /\ ExampleLabel(reqs[r], i).adjustments[1].action = "MAINTAIN"
    /\ ExampleLabel(reqs[r], j).adjustments[1].action = "DECREASE"
    /\ ExampleLabel(reqs[r], j).severity_level = "high"
    /\ ExampleLabel(reqs[r], j).adjustments[1].value = 3

\* ---- the positional rename -------------------------------------------
\* a storage-safe name denotes the quantity of a canonical name when it is
\* that name with its unit respelled: percent as pct, slash as _per_ or as
\* an underscore, letters in either case
SameQuantity(canonical, safe) ==
  LowerName(CharsOf(safe)) \in
    { LowerName(Sanitize(CharsOf(canonical))),
      LowerName(SanitizeSlashAsUnderscore(CharsOf(canonical))) }

\* C23: the positional rename never mislabels a column: both name lists have
\* 21 entries, the storage-safe names are pairwise distinct, the i-th
\* storage-safe name denotes the quantity of the i-th canonical name and of
\* no other, and the rename step leaves under each storage-safe name the
\* values the frame held under the canonical name of the same position.
C23_RenameNeverMislabels ==
  [][pc = 108 =>
       /\ Len(column_order) = 21
       /\ Len(bq_friendly_columns) = 21
       /\ Distinct(bq_friendly_columns)
       /\ \A i \in DOMAIN bq_friendly_columns : \A j \in DOMAIN column_order :
            SameQuantity(column_order[j], bq_friendly_columns[i]) <=> i = j
       /\ data.cols = column_order
       /\ pc' # RaisedLine
       /\ data'.cols = bq_friendly_columns
       /\ \A i \in DOMAIN bq_friendly_columns :
            data'.val[bq_friendly_columns[i]] = data.val[column_order[i]]]_vars

\* the file holds the renamed frame: the thermal energy column, whose name
\* changed, carries values that differ from those of the electrical energy
\* column
C23_Witness ==
  /\ Written
  /\ csv.cols = bq_friendly_columns
  /\ Len(csv.cols) = 21
  /\ csv.cols[17] # column_order[17]
  /\ csv.val[csv.cols[17]] # csv.val[csv.cols[20]]

====
